---- MODULE Spec2Model ----
(***************************************************************************)
(* Command execution of programmable transactions                          *)
(* (sui-adapter/src/programmable_transactions/execution.rs).               *)
(*                                                                         *)
(* A transaction is executed one command at a time by execute_inner.  The  *)
(* model keeps the ExecutionContext (argument slots, borrow table, id      *)
(* counter, packages), the loop position of execute_inner and the command  *)
(* in flight.  The Move VM, the verifier, the gas charger and the package  *)
(* store are external: their outcomes are inputs of the commands.          *)
(***************************************************************************)
EXTENDS Integers, Sequences, FiniteSets, TLC

VARIABLES env, context, pc, idx, cur, err, timings, state_view, history

vars == <<env, context, pc, idx, cur, err, timings, state_view, history>>

(***************************************************************************)
(* Bounds of the model.                                                    *)
(***************************************************************************)
\* number of commands of a transaction of coin commands
MaxCommands == 3
\* number of commands of a transaction of commands of every kind
MaxCallCommands == 2
\* number of commands of a transaction of calls of three functions
MaxPrivacyCommands == 3
\* number of commands of a transaction of package commands
MaxPackageCommands == 3
\* number of commands of a transaction of calls and Publish commands
MaxVisibilityCommands == 2
\* number of commands of a transaction of typed and pure arguments
MaxTypeCommands == 2
\* number of commands of a transaction under a budget for the size of values
MaxSizeCommands == 2
\* number of commands of a transaction of commands with native effects
MaxEffectCommands == 2
\* number of commands of a transaction that publishes
MaxInitCommands == 2
\* number of type arguments of a call
MaxTypeArguments == 2
\* number of elements of an encoded vector
MaxElements == 2
\* number of commands of a transaction of calls that mark values
MaxMarkCommands == 2
\* number of commands of a transaction of calls with the transaction context
MaxOutputCommands == 2
\* number of commands of a transaction whose linkage is followed
MaxLinkageCommands == 2
\* number of initializers of a published package whose linkage is followed
MaxInitializers == 2
\* number of amounts of a SplitCoins, coins of a MergeCoins, objects of a
\* TransferObjects, elements of a MakeMoveVec
MaxArgs == 2
\* largest coin balance (u64::MAX, scaled down)
MaxBalance == 4

\* the nesting of vector<_> and Option<_> in the types that are enumerated
MaxTypeDepth == 2
\* largest budget for the size of a value (max_ptb_value_size, scaled down)
MaxValueSize == 100
\* largest depth of a value (max_move_value_depth, scaled down)
MaxValueDepth == 3

(***************************************************************************)
(* Values (Value, ObjectValue, RawValueType).                              *)
(*   kind  "Object" | "Loaded" | "Any" | "None" (an empty slot)            *)
(*   ty    the type of an Object or Loaded value; for Any, the shape of    *)
(*         the bytes ("bytes8" decodes as u64, "bytes32" as address); the  *)
(*         assigned type of a receiving argument, "" when it has none      *)
(*   id    object id, 0 for raw values                                     *)
(*   data  contents: <<balance>> of a coin, <<n>> of a number,             *)
(*         <<cap, package, policy, digest>> of an upgrade ticket           *)
(*   used  used_in_non_entry_move_call                                     *)
(*   store has_public_transfer                                             *)
(*   copy  the copy ability                                                *)
(***************************************************************************)
ReceivingVal(assigned_type, id) ==
    [kind |-> "Receiving", ty |-> assigned_type, id |-> id, data |-> <<>>,
     used |-> FALSE, store |-> FALSE, copy |-> FALSE]

NoneVal ==
    [kind |-> "None", ty |-> "", id |-> 0, data |-> <<>>,
     used |-> FALSE, store |-> FALSE, copy |-> FALSE]

ObjectVal(ty, id, data, store, used) ==
    [kind |-> "Object", ty |-> ty, id |-> id, data |-> data,
     used |-> used, store |-> store, copy |-> FALSE]

LoadedVal(ty, data, copy, used) ==
    [kind |-> "Loaded", ty |-> ty, id |-> 0, data |-> data,
     used |-> used, store |-> FALSE, copy |-> copy]

AnyVal(shape, data) ==
    [kind |-> "Any", ty |-> shape, id |-> 0, data |-> data,
     used |-> FALSE, store |-> FALSE, copy |-> TRUE]

CoinTypes == {"Coin<A>", "Coin<B>"}

IsCoin(v) == v.kind = "Object" /\ v.ty \in CoinTypes

CoinVal(ty, id, bal) == ObjectVal(ty, id, <<bal>>, TRUE, FALSE)

Balance(v) == v.data[1]

is_copyable(v) ==
    CASE v.kind = "Object" -> FALSE
      [] v.kind = "Any" -> TRUE
      [] OTHER -> v.copy

was_used_in_non_entry_move_call(v) ==
    CASE v.kind = "Object" -> v.used
      [] v.kind = "Loaded" -> v.used
      [] OTHER -> FALSE

(***************************************************************************)
(* Arguments: Input(i) or NestedResult(i, j), counted from 0 as in the     *)
(* transaction.                                                            *)
(***************************************************************************)
Input(i) == [k |-> "Input", i |-> i, j |-> 0]

NestedResult(i, j) == [k |-> "Result", i |-> i, j |-> j]

ValidArgs(c) ==
    {Input(i - 1) : i \in 1..Len(c.inputs)}
        \cup UNION {{NestedResult(i - 1, j - 1) : j \in 1..Len(c.results[i])} :
                       i \in 1..Len(c.results)}

(***************************************************************************)
(* Errors: the kind, the argument index of a command argument error (-1    *)
(* when there is none) and the command index set by execute_inner.         *)
(***************************************************************************)
NoErr == [kind |-> "", arg |-> -1, cmd |-> -1]

Error(kind) == [kind |-> kind, arg |-> -1, cmd |-> -1]

command_argument_error(kind, arg_idx) == [kind |-> kind, arg |-> arg_idx, cmd |-> -1]

Ok(c, v) == [ok |-> TRUE, ctx |-> c, val |-> v, err |-> NoErr]

Fail(c, e) == [ok |-> FALSE, ctx |-> c, val |-> NoneVal, err |-> e]

(***************************************************************************)
(* The argument slots and the borrow table of the ExecutionContext.        *)
(***************************************************************************)
SlotVal(c, a) ==
    IF a.k = "Input" THEN c.inputs[a.i + 1] ELSE c.results[a.i + 1][a.j + 1]

SetSlot(c, a, v) ==
    IF a.k = "Input"
    THEN [c EXCEPT !.inputs[a.i + 1] = v]
    ELSE [c EXCEPT !.results[a.i + 1][a.j + 1] = v]

arg_is_borrowed(c, a) == a \in DOMAIN c.borrowed

arg_is_mut_borrowed(c, a) == a \in DOMAIN c.borrowed /\ c.borrowed[a]

BorrowedInsert(c, a, is_mut) ==
    [c EXCEPT !.borrowed =
        [x \in DOMAIN c.borrowed \cup {a} |-> IF x = a THEN is_mut ELSE c.borrowed[x]]]

BorrowedRemove(c, a) ==
    [c EXCEPT !.borrowed = [x \in DOMAIN c.borrowed \ {a} |-> c.borrowed[x]]]

\* TryFromValue: the target is "Value", "ObjectValue", "u64" or "address";
\* the result is "" or the CommandArgumentError.
try_from_value(want, v) ==
    CASE want = "Value" -> ""
      [] want = "ObjectValue" -> IF v.kind = "Object" THEN "" ELSE "TypeMismatch"
      [] OTHER ->
            CASE v.kind = "Object" -> "TypeMismatch"
              [] v.kind = "Any" ->
                    IF v.ty = (IF want = "u64" THEN "bytes8" ELSE "bytes32")
                    THEN "" ELSE "InvalidBCSBytes"
              [] OTHER -> IF v.ty = want THEN "" ELSE "TypeMismatch"

\* by_value_arg: the value leaves the slot unless it is copyable.
by_value_arg(c, want, arg_idx, a) ==
    LET v == SlotVal(c, a) IN
    IF v.kind = "None"
    THEN Fail(c, command_argument_error("InvalidValueUsage", arg_idx))
    ELSE IF ~is_copyable(v) /\ arg_is_borrowed(c, a)
    THEN Fail(c, command_argument_error("InvalidValueUsage", arg_idx))
    ELSE LET c1 == IF is_copyable(v) THEN c ELSE SetSlot(c, a, NoneVal)
             e == try_from_value(want, v)
         IN IF e = "" THEN Ok(c1, v) ELSE Fail(c1, command_argument_error(e, arg_idx))

\* borrow_arg_mut: unique usage; the value is taken out of the slot until
\* restore_arg, unless it is copyable.
borrow_arg_mut(c, want, arg_idx, a) ==
    IF arg_is_borrowed(c, a)
    THEN Fail(c, command_argument_error("InvalidValueUsage", arg_idx))
    ELSE LET c1 == BorrowedInsert(c, a, TRUE)
             v == SlotVal(c1, a)
         IN IF v.kind = "None"
            THEN Fail(c1, command_argument_error("InvalidValueUsage", arg_idx))
            ELSE LET c2 == IF is_copyable(v) THEN c1 ELSE SetSlot(c1, a, NoneVal)
                     e == try_from_value(want, v)
                 IN IF e = "" THEN Ok(c2, v)
                    ELSE Fail(c2, command_argument_error(e, arg_idx))

\* borrow_arg: the slot must not be mutably borrowed nor moved.
borrow_arg(c, want, arg_idx, a) ==
    IF arg_is_mut_borrowed(c, a)
    THEN Fail(c, command_argument_error("InvalidValueUsage", arg_idx))
    ELSE LET c1 == BorrowedInsert(c, a, FALSE)
             v == SlotVal(c1, a)
         IN IF v.kind = "None"
            THEN Fail(c1, command_argument_error("InvalidValueUsage", arg_idx))
            ELSE LET e == try_from_value(want, v)
                 IN IF e = "" THEN Ok(c1, v)
                    ELSE Fail(c1, command_argument_error(e, arg_idx))

\* restore_arg: only a mutably borrowed slot is restored, and the slot is
\* empty unless its value is copyable.
restore_arg(c, a, v) ==
    IF ~arg_is_mut_borrowed(c, a)
    THEN Fail(BorrowedRemove(c, a), Error("InvariantViolation"))
    ELSE LET c1 == BorrowedRemove(c, a)
             old == SlotVal(c1, a)
         IN IF old.kind = "None" \/ is_copyable(old)
            THEN Ok(SetSlot(c1, a, v), NoneVal)
            ELSE Fail(SetSlot(c1, a, v), Error("InvariantViolation"))

\* push_command_results: all mutable borrows are restored by now; the
\* borrow table is cleared and the results become argument slots.
push_command_results(c, results) ==
    IF \E a \in DOMAIN c.borrowed : c.borrowed[a]
    THEN Fail(c, Error("InvariantViolation"))
    ELSE Ok([c EXCEPT !.borrowed = <<>>, !.results = Append(@, results)], NoneVal)

\* fresh_id: the next id of the transaction context, registered as new.
fresh_id(c) ==
    [ctx |-> [c EXCEPT !.ids_created = @ + 1, !.new_ids = @ \cup {c.ids_created + 1}],
     id |-> c.ids_created + 1]

delete_id(c, id) == [c EXCEPT !.deleted = @ \cup {id}]

transfer_object(c, obj, addr) == [c EXCEPT !.transfers = @ \cup {<<obj.id, addr>>}]

(***************************************************************************)
(* Results of a command body: the context it leaves, and either the        *)
(* result values or the error.                                             *)
(***************************************************************************)
CmdOk(c, results) == [ok |-> TRUE, ctx |-> c, results |-> results, err |-> NoErr]

CmdFail(c, e) == [ok |-> FALSE, ctx |-> c, results |-> <<>>, err |-> e]

NoArg == [k |-> "None", i |-> 0, j |-> 0]

\* The command in flight: its kind, its arguments and, once its body has
\* returned, its results.  For a Move call: the function and its kind, the
\* number of arguments resolved so far (next), the values resolved, the
\* arguments passed by mutable reference (by_mut_ref: index and value kind)
\* and by immutable reference (by_ref: index).
\* For Publish and Upgrade: the module bytes, the dependency ids, the
\* package id and the step at which a collaborator fails (fault).
Command(kind, a0, args) ==
    [kind |-> kind, a0 |-> a0, args |-> args, results |-> <<>>,
     function |-> "", function_kind |-> "", next |-> 0,
     values |-> <<>>, by_mut_ref |-> <<>>, by_ref |-> <<>>,
     modules |-> "", dep_ids |-> <<>>, package_id |-> 0, fault |-> "",
     serialized_arguments |-> <<>>, mutable_reference_outputs |-> <<>>]

NoCommand == Command("", NoArg, <<>>)

\* by_value_arg of each argument in order, the first at index first_idx,
\* stopping at the first failure (map ... collect::<Result<_, _>>).
RECURSIVE TakeAll(_, _, _, _, _)
TakeAll(c, want, args, first_idx, acc) ==
    IF args = <<>>
    THEN [ok |-> TRUE, ctx |-> c, vals |-> acc, err |-> NoErr]
    ELSE LET r == by_value_arg(c, want, first_idx, Head(args)) IN
         IF ~r.ok
         THEN [ok |-> FALSE, ctx |-> r.ctx, vals |-> acc, err |-> r.err]
         ELSE TakeAll(r.ctx, want, Tail(args), first_idx + 1, Append(acc, r.val))

(***************************************************************************)
(* Command::SplitCoins                                                     *)
(***************************************************************************)
\* (a variant of SplitOne that draws the id after the split)
SplitOneIdAfterSplit(c, obj, amount_arg) ==
    LET a == by_value_arg(c, "u64", 1, amount_arg) IN
    IF ~a.ok
    THEN [ok |-> FALSE, ctx |-> a.ctx, obj |-> obj, coin |-> NoneVal, err |-> a.err]
    ELSE LET amount == a.val.data[1] IN
         IF Balance(obj) < amount
         THEN [ok |-> FALSE, ctx |-> a.ctx, obj |-> obj, coin |-> NoneVal,
               err |-> Error("InsufficientCoinBalance")]
         ELSE LET f == fresh_id(a.ctx) IN
              [ok |-> TRUE, ctx |-> f.ctx,
               obj |-> [obj EXCEPT !.data = <<Balance(obj) - amount>>],
               coin |-> CoinVal(obj.ty, f.id, amount), err |-> NoErr]

\* One amount: the amount is taken, a fresh id is drawn, then the coin is
\* split (Coin::split fails when the balance is below the amount).
SplitOne(c, obj, amount_arg) ==
    LET a == by_value_arg(c, "u64", 1, amount_arg) IN
    IF ~a.ok
    THEN [ok |-> FALSE, ctx |-> a.ctx, obj |-> obj, coin |-> NoneVal, err |-> a.err]
    ELSE LET f == fresh_id(a.ctx)
             amount == a.val.data[1]
         IN IF Balance(obj) < amount
            THEN [ok |-> FALSE, ctx |-> f.ctx, obj |-> obj, coin |-> NoneVal,
                  err |-> Error("InsufficientCoinBalance")]
            ELSE [ok |-> TRUE, ctx |-> f.ctx,
                  obj |-> [obj EXCEPT !.data = <<Balance(obj) - amount>>],
                  coin |-> CoinVal(obj.ty, f.id, amount), err |-> NoErr]

RECURSIVE SplitAll(_, _, _, _)
SplitAll(c, obj, amount_args, acc) ==
    IF amount_args = <<>>
    THEN [ok |-> TRUE, ctx |-> c, obj |-> obj, coins |-> acc, err |-> NoErr]
    ELSE LET s == SplitOne(c, obj, Head(amount_args)) IN
         IF ~s.ok
         THEN [ok |-> FALSE, ctx |-> s.ctx, obj |-> s.obj, coins |-> acc, err |-> s.err]
         ELSE SplitAll(s.ctx, s.obj, Tail(amount_args), Append(acc, s.coin))

\* (variants of SplitRestore: no restore; the coin as it was borrowed)
SplitRestoreSkipped(c, coin_arg, borrowed_obj, obj) == Ok(c, NoneVal)

SplitRestoreStale(c, coin_arg, borrowed_obj, obj) == restore_arg(c, coin_arg, borrowed_obj)

\* The source coin goes back into its slot with what is left of it.
SplitRestore(c, coin_arg, borrowed_obj, obj) == restore_arg(c, coin_arg, obj)

SplitCoins(c, coin_arg, amount_args) ==
    LET b == borrow_arg_mut(c, "ObjectValue", 0, coin_arg) IN
    IF ~b.ok THEN CmdFail(b.ctx, b.err)
    ELSE IF ~IsCoin(b.val)
    THEN CmdFail(b.ctx, command_argument_error("TypeMismatch", 0))
    ELSE LET s == SplitAll(b.ctx, b.val, amount_args, <<>>) IN
         IF ~s.ok THEN CmdFail(s.ctx, s.err)
         ELSE LET r == SplitRestore(s.ctx, coin_arg, b.val, s.obj) IN
              IF ~r.ok THEN CmdFail(r.ctx, r.err) ELSE CmdOk(r.ctx, s.coins)

(***************************************************************************)
(* Command::MergeCoins                                                     *)
(***************************************************************************)
\* (a variant of MergeMismatchIndex that counts the coins from 0)
MergeMismatchIndexOffByOne(i) == i

\* the argument index of the i-th coin to merge (i counted from 0)
MergeMismatchIndex(i) == i + 1

\* (a variant of MergeOne that does not delete the id of the coin)
MergeOneKeepId(c, target, coin, i) ==
    IF target.ty # coin.ty
    THEN [ok |-> FALSE, ctx |-> c, target |-> target,
          err |-> command_argument_error("TypeMismatch", MergeMismatchIndex(i))]
    ELSE IF Balance(target) + Balance(coin) > MaxBalance
         THEN [ok |-> FALSE, ctx |-> c, target |-> target,
               err |-> Error("CoinBalanceOverflow")]
         ELSE [ok |-> TRUE, ctx |-> c,
               target |-> [target EXCEPT !.data = <<Balance(target) + Balance(coin)>>],
               err |-> NoErr]

\* One coin to merge: its type is compared with the target's, its id is
\* deleted and its balance added (Balance::join fails on overflow).
MergeOne(c, target, coin, i) ==
    IF target.ty # coin.ty
    THEN [ok |-> FALSE, ctx |-> c, target |-> target,
          err |-> command_argument_error("TypeMismatch", MergeMismatchIndex(i))]
    ELSE LET c1 == delete_id(c, coin.id) IN
         IF Balance(target) + Balance(coin) > MaxBalance
         THEN [ok |-> FALSE, ctx |-> c1, target |-> target,
               err |-> Error("CoinBalanceOverflow")]
         ELSE [ok |-> TRUE, ctx |-> c1,
               target |-> [target EXCEPT !.data = <<Balance(target) + Balance(coin)>>],
               err |-> NoErr]

RECURSIVE MergeAll(_, _, _, _)
MergeAll(c, target, coins, i) ==
    IF i >= Len(coins)
    THEN [ok |-> TRUE, ctx |-> c, target |-> target, err |-> NoErr]
    ELSE LET m == MergeOne(c, target, coins[i + 1], i) IN
         IF ~m.ok THEN m ELSE MergeAll(m.ctx, m.target, coins, i + 1)

MergeCoins(c, target_arg, coin_args) ==
    LET b == borrow_arg_mut(c, "ObjectValue", 0, target_arg) IN
    IF ~b.ok THEN CmdFail(b.ctx, b.err)
    ELSE IF ~IsCoin(b.val)
    THEN CmdFail(b.ctx, command_argument_error("TypeMismatch", 0))
    ELSE LET t == TakeAll(b.ctx, "ObjectValue", coin_args, 1, <<>>) IN
         IF ~t.ok THEN CmdFail(t.ctx, t.err)
         ELSE LET m == MergeAll(t.ctx, b.val, t.vals, 0) IN
              IF ~m.ok THEN CmdFail(m.ctx, m.err)
              ELSE LET r == restore_arg(m.ctx, target_arg, m.target) IN
                   IF ~r.ok THEN CmdFail(r.ctx, r.err) ELSE CmdOk(r.ctx, <<>>)

(***************************************************************************)
(* Command::TransferObjects                                                *)
(***************************************************************************)
\* (a variant of TransferAll that checks every object before it transfers any)
TransferAllChecked(c, objs, addr) ==
    IF \E n \in 1..Len(objs) : ~objs[n].store
    THEN CmdFail(c, Error("InvalidTransferObject"))
    ELSE CmdOk([c EXCEPT !.transfers = @ \cup {<<objs[n].id, addr>> : n \in 1..Len(objs)}],
               <<>>)

RECURSIVE TransferAll(_, _, _)
TransferAll(c, objs, addr) ==
    IF objs = <<>> THEN CmdOk(c, <<>>)
    ELSE IF ~Head(objs).store
    THEN CmdFail(c, Error("InvalidTransferObject"))
    ELSE TransferAll(transfer_object(c, Head(objs), addr), Tail(objs), addr)

TransferObjects(c, objs, addr_arg) ==
    LET t == TakeAll(c, "ObjectValue", objs, 0, <<>>) IN
    IF ~t.ok THEN CmdFail(t.ctx, t.err)
    ELSE LET a == by_value_arg(t.ctx, "address", Len(t.vals), addr_arg) IN
         IF ~a.ok THEN CmdFail(a.ctx, a.err)
         ELSE TransferAll(a.ctx, t.vals, a.val.data[1])

(***************************************************************************)
(* Types of the Move packages the transactions call into.  A type is named *)
(* by a string; vector<T> and Option<T> are the two constructors that the  *)
(* layout of a pure argument looks into.                                   *)
(***************************************************************************)
Abilities(key, store, copy) == [key |-> key, store |-> store, copy |-> copy]

BaseTypes ==
    {"bool", "u8", "u16", "u32", "u64", "u128", "u256", "address", "signer",
     "ID", "String", "AsciiString",
     "Obj", "Coin<A>", "Coin<B>", "UpgradeCap", "UpgradeTicket", "UpgradeReceipt",
     "Witness", "TxContext", "Receiving<Obj>"}

VectorOf(ty) == "vector<" \o ty \o ">"

OptionOf(ty) == "Option<" \o ty \o ">"

\* the types of at most n nested constructors
RECURSIVE TypesUpTo(_)
TypesUpTo(n) ==
    IF n = 0 THEN BaseTypes
    ELSE LET S == TypesUpTo(n - 1)
         IN S \cup {VectorOf(ty) : ty \in S} \cup {OptionOf(ty) : ty \in S}

Types == TypesUpTo(MaxTypeDepth)

VectorTypes == {VectorOf(ty) : ty \in TypesUpTo(MaxTypeDepth - 1)}

OptionTypes == {OptionOf(ty) : ty \in TypesUpTo(MaxTypeDepth - 1)}

\* the type argument of a vector<T> or an Option<T>
TypeArgument ==
    [ty \in VectorTypes \cup OptionTypes |->
        CHOOSE inner \in TypesUpTo(MaxTypeDepth - 1) :
            ty \in {VectorOf(inner), OptionOf(inner)}]

RECURSIVE get_type_abilities(_)
get_type_abilities(ty) ==
    CASE ty \in {"Obj", "UpgradeCap"} \cup CoinTypes -> Abilities(TRUE, TRUE, FALSE)
      [] ty \in {"bool", "u8", "u16", "u32", "u64", "u128", "u256", "address",
                 "ID", "String", "AsciiString"} -> Abilities(FALSE, TRUE, TRUE)
      [] ty \in VectorTypes \cup OptionTypes ->
            Abilities(FALSE, get_type_abilities(TypeArgument[ty]).store,
                      get_type_abilities(TypeArgument[ty]).copy)
      [] OTHER -> Abilities(FALSE, FALSE, FALSE)

\* primitive_serialization_layout: the PrimitiveArgumentLayout of a type as
\* the sequence of its constructors, outermost first; <<>> is None
RECURSIVE primitive_serialization_layout(_)
primitive_serialization_layout(param_ty) ==
    CASE param_ty = "signer" -> <<>>
      [] param_ty = "bool" -> <<"Bool">>
      [] param_ty = "u8" -> <<"U8">>
      [] param_ty = "u16" -> <<"U16">>
      [] param_ty = "u32" -> <<"U32">>
      [] param_ty = "u64" -> <<"U64">>
      [] param_ty = "u128" -> <<"U128">>
      [] param_ty = "u256" -> <<"U256">>
      [] param_ty = "address" -> <<"Address">>
      [] param_ty \in VectorTypes ->
            LET info_opt == primitive_serialization_layout(TypeArgument[param_ty])
            IN IF info_opt = <<>> THEN <<>> ELSE <<"Vector">> \o info_opt
      [] param_ty \in OptionTypes ->
            LET info_opt == primitive_serialization_layout(TypeArgument[param_ty])
            IN IF info_opt = <<>> THEN <<>> ELSE <<"Option">> \o info_opt
      [] param_ty = "ID" -> <<"Address">>
      [] param_ty = "AsciiString" -> <<"Ascii">>
      [] param_ty = "String" -> <<"UTF8">>
      [] OTHER -> <<>>

\* The bytes of a pure input are named by their shape.  Decodes(shape) are
\* the layouts that bcs::from_bytes_seed walks these bytes with to their
\* end: "bytes1" is the byte 01, "bytes8" eight bytes of a number, "bytes9"
\* the byte 01 and eight bytes, "bytes32" the bytes of an address.
Decodes(shape) ==
    CASE shape = "bytes1" -> {<<"Bool">>, <<"U8">>}
      [] shape = "bytes8" -> {<<"U64">>}
      [] shape = "bytes9" -> {<<"Option", "U64">>}
      [] shape = "bytes32" -> {<<"Address">>, <<"U256">>}
      [] OTHER -> {}

\* (a variant of bcs_argument_validate that accepts all bytes)
bcs_argument_validate_any(bytes, arg_idx, layout) == NoErr

bcs_argument_validate(bytes, arg_idx, layout) ==
    IF layout \in Decodes(bytes) THEN NoErr
    ELSE command_argument_error("InvalidBCSBytes", arg_idx)

allow_arbitrary_values(mode) == mode = "DevInspect"

allow_arbitrary_function_calls(mode) == mode = "DevInspect"

packages_are_predefined(mode) == mode = "Genesis"

(***************************************************************************)
(* The amplification bound.  An Option<u64> of the code is <<>> for None   *)
(* and <<n>> for Some(n).                                                  *)
(***************************************************************************)
\* (variants of amplification: one that looks at the outermost constructor
\* only, one that takes an Option for its content)
amplification_flat(prim_layout) ==
    IF Head(prim_layout) \in {"Bool", "U8", "U16", "U32", "U64"} THEN 1 ELSE 2

RECURSIVE amplification_of_inner(_)
amplification_of_inner(prim_layout) ==
    CASE Head(prim_layout) \in {"Option", "Vector"} ->
            amplification_of_inner(Tail(prim_layout))
      [] Head(prim_layout) \in {"Bool", "U8", "U16", "U32", "U64"} -> 1
      [] OTHER -> 2

RECURSIVE amplification(_)
amplification(prim_layout) ==
    CASE Head(prim_layout) = "Option" -> 1 + amplification(Tail(prim_layout))
      [] Head(prim_layout) = "Vector" -> amplification(Tail(prim_layout))
      [] Head(prim_layout) \in {"Ascii", "UTF8"} -> 2
      [] Head(prim_layout) \in {"Bool", "U8", "U16", "U32", "U64"} -> 1
      [] OTHER -> 2

amplification_bound_(mode, protocol_config, param_ty) ==
    IF packages_are_predefined(mode) THEN <<>>
    ELSE IF protocol_config.max_ptb_value_size = <<>> THEN <<>>
    ELSE LET bound == protocol_config.max_ptb_value_size[1]
             layout == primitive_serialization_layout(param_ty)
             amplification0 == IF layout = <<>>
                               THEN protocol_config.max_move_value_depth
                               ELSE amplification(layout)
             amplification1 == IF amplification0 = 0
                               THEN protocol_config.max_move_value_depth
                               ELSE amplification0
         IN <<bound \div amplification1>>

\* (a variant of amplification_bound that does not look at the abilities)
amplification_bound_of_every_type(mode, protocol_config, param_ty) ==
    amplification_bound_(mode, protocol_config, param_ty)

amplification_bound(mode, protocol_config, param_ty) ==
    IF protocol_config.max_ptb_value_size_v2 /\ ~get_type_abilities(param_ty).copy
    THEN <<>>
    ELSE amplification_bound_(mode, protocol_config, param_ty)

\* the number of bytes of a value: those of a pure input by their shape,
\* those of the other values by their type
TypeSize(ty) ==
    CASE ty \in {"bool", "u8"} -> 1
      [] ty = "u16" -> 2
      [] ty = "u32" -> 4
      [] ty = "u64" -> 8
      [] ty = "u128" -> 16
      [] ty \in {"u256", "address", "ID"} -> 32
      [] ty \in {"Obj", "Coin<A>", "Coin<B>"} -> 40
      [] ty = "UpgradeCap" -> 73
      [] ty = "UpgradeTicket" -> 98
      [] ty = "UpgradeReceipt" -> 64
      [] ty = "Receiving<Obj>" -> 40
      [] OTHER -> 1

serialized_size(value) ==
    CASE value.kind = "Any" ->
            (CASE value.ty = "bytes1" -> 1
               [] value.ty = "bytes8" -> 8
               [] value.ty = "bytes9" -> 9
               [] OTHER -> 32)
      [] value.kind = "Loaded" /\ value.ty \in VectorTypes ->
            1 + value.data[1] * TypeSize(TypeArgument[value.ty])
      [] OTHER -> TypeSize(value.ty)

\* ensure_serialized_size: the size is within the bound
ensure_serialized_size(size, bound) ==
    IF size > bound THEN Error("MoveValueTooBig") ELSE NoErr

\* write_bcs_bytes with an optional bound
write_bcs_bytes(value, bound) ==
    IF bound = <<>> THEN NoErr ELSE ensure_serialized_size(serialized_size(value), bound[1])

\* the type that the receiving struct is instantiated with, "" when the
\* type is no instantiation of the receiving struct
ReceivingArgument(param_ty) == IF param_ty = "Receiving<Obj>" THEN "Obj" ELSE ""

\* (a variant of check_param_type that lets the values of commands through
\* when arbitrary values are allowed)
check_param_type_relaxed_for_typed(e, arg_idx, value, param_ty) ==
    CASE value.kind = "Any" /\ allow_arbitrary_values(e.mode) -> NoErr
      [] value.kind = "Any" ->
            IF primitive_serialization_layout(param_ty) = <<>>
            THEN command_argument_error("InvalidUsageOfPureArg", arg_idx)
            ELSE bcs_argument_validate(value.ty, arg_idx,
                                       primitive_serialization_layout(param_ty))
      [] OTHER ->
            IF value.ty # param_ty /\ ~allow_arbitrary_values(e.mode)
            THEN command_argument_error("TypeMismatch", arg_idx)
            ELSE NoErr

\* check_param_type: NoErr or the error
check_param_type(e, arg_idx, value, param_ty) ==
    CASE value.kind = "Any" /\ allow_arbitrary_values(e.mode) ->
            LET bound == amplification_bound_(e.mode, e.protocol_config, param_ty)
            IN IF bound # <<>>
               THEN ensure_serialized_size(serialized_size(value), bound[1])
               ELSE NoErr
      [] value.kind = "Any" /\ ~allow_arbitrary_values(e.mode) ->
            LET layout == primitive_serialization_layout(param_ty)
            IN IF layout = <<>>
               THEN command_argument_error("InvalidUsageOfPureArg", arg_idx)
               ELSE bcs_argument_validate(value.ty, arg_idx, layout)
      [] value.kind = "Loaded" ->
            IF ~allow_arbitrary_values(e.mode) /\ get_type_abilities(value.ty).key
            THEN Error("InvariantViolation")
            ELSE IF value.ty # param_ty
                 THEN command_argument_error("TypeMismatch", arg_idx)
                 ELSE NoErr
      [] value.kind = "Object" ->
            IF value.ty # param_ty
            THEN command_argument_error("TypeMismatch", arg_idx)
            ELSE NoErr
      [] OTHER ->
            \* Value::Receiving: value.ty is the assigned type, "" when none
            IF value.ty # "" /\ value.ty # param_ty
            THEN command_argument_error("TypeMismatch", arg_idx)
            ELSE IF ReceivingArgument(param_ty) = ""
                 THEN command_argument_error("TypeMismatch", arg_idx)
                 ELSE NoErr

(***************************************************************************)
(* Functions.  A parameter is a type and its reference kind ("val", "imm"  *)
(* or "mut"); a return type likewise.                                      *)
(***************************************************************************)
Param(ref, ty) == [ref |-> ref, ty |-> ty]

FunctionDef(visibility, is_entry, parameters, return_) ==
    [visibility |-> visibility, is_entry |-> is_entry,
     parameters |-> parameters, return_ |-> return_]

\* the functions of the packages that transactions call: the functions of a
\* module of objects, the initializer of a module, and a function that
\* exchanges an upgrade capability for an upgrade ticket
CallFunctions ==
    {"make", "touch", "edit", "look", "consume", "inspect", "adjust", "take", "hidden",
     "init"}

\* the initializers of other modules: e and p declare theirs entry and
\* public, n declares one with a one-time witness, b one with a one-time
\* witness and no transaction context
InitFunctions == {"init", "e_init", "p_init", "n_init", "b_init"}

\* functions of the framework modules event and transfer, and a function
\* emit of a module event that is not the framework's
FrameworkFunctions ==
    {"emit", "transfer", "public_transfer", "share_object", "public_share_object",
     "u_emit"}

\* functions that take the transaction context
ContextFunctions == {"touch_ctx", "look_ctx", "ctx_first", "edit_ctx"}

\* functions that take pure values, a signer and a receiving argument
PureFunctions == {"pay", "maybe", "sign", "receive"}

\* functions that return references: public ones and a private one
ReferenceFunctions == {"peek", "pair", "p_peek"}

\* functions that take an object by mutable reference and return a number:
\* a private function that is not entry and a friend entry function
CountingFunctions == {"tweak", "count"}

FunctionNames ==
    CallFunctions \cup {"authorize", "internal"} \cup InitFunctions
        \cup FrameworkFunctions \cup ContextFunctions
        \cup PureFunctions \cup ReferenceFunctions \cup CountingFunctions

\* the module of a function and its name in that module
ModuleOf(f) ==
    CASE f = "emit" -> "sui::event"
      [] f \in {"transfer", "public_transfer", "share_object", "public_share_object"} ->
            "sui::transfer"
      [] f = "u_emit" -> "user::event"
      [] f = "e_init" -> "user::e"
      [] f = "p_init" -> "user::p"
      [] f = "n_init" -> "user::n"
      [] f = "b_init" -> "user::b"
      [] OTHER -> "user::m"

IdentOf(f) ==
    CASE f \in InitFunctions -> "init"
      [] f = "u_emit" -> "emit"
      [] OTHER -> f

Functions ==
    [f \in FunctionNames |->
        CASE f = "make" ->
                FunctionDef("Public", FALSE, <<>>, <<Param("val", "Obj")>>)
          [] f = "touch" ->
                FunctionDef("Public", TRUE, <<Param("mut", "Obj")>>, <<>>)
          [] f = "edit" ->
                FunctionDef("Public", FALSE,
                            <<Param("mut", "Obj"), Param("mut", "Obj")>>, <<>>)
          [] f = "look" ->
                FunctionDef("Public", FALSE,
                            <<Param("imm", "Obj"), Param("imm", "Obj")>>, <<>>)
          [] f = "consume" ->
                FunctionDef("Private", TRUE, <<Param("val", "Obj")>>, <<>>)
          [] f = "inspect" ->
                FunctionDef("Friend", TRUE,
                            <<Param("imm", "Obj"), Param("mut", "Obj")>>, <<>>)
          [] f = "adjust" ->
                FunctionDef("Public", FALSE,
                            <<Param("mut", "Obj"), Param("imm", "Obj")>>, <<>>)
          [] f = "take" ->
                FunctionDef("Public", FALSE,
                            <<Param("val", "Obj"), Param("val", "Obj")>>, <<>>)
          [] f = "init" ->
                FunctionDef("Private", FALSE, <<Param("mut", "TxContext")>>, <<>>)
          [] f = "authorize" ->
                FunctionDef("Public", FALSE, <<Param("val", "UpgradeCap")>>,
                            <<Param("val", "UpgradeTicket")>>)
          [] f = "internal" ->
                FunctionDef("Friend", FALSE, <<>>, <<>>)
          [] f = "e_init" ->
                FunctionDef("Private", TRUE, <<Param("mut", "TxContext")>>, <<>>)
          [] f = "p_init" ->
                FunctionDef("Public", FALSE, <<Param("mut", "TxContext")>>, <<>>)
          [] f = "n_init" ->
                FunctionDef("Private", FALSE,
                            <<Param("val", "Witness"), Param("mut", "TxContext")>>, <<>>)
          [] f = "b_init" ->
                FunctionDef("Private", FALSE,
                            <<Param("val", "Witness"), Param("val", "Obj")>>, <<>>)
          [] f \in {"emit", "u_emit"} ->
                FunctionDef("Public", FALSE, <<Param("val", "Obj")>>, <<>>)
          [] f \in {"transfer", "public_transfer"} ->
                FunctionDef("Public", FALSE,
                            <<Param("val", "Obj"), Param("val", "Obj")>>, <<>>)
          [] f \in {"share_object", "public_share_object"} ->
                FunctionDef("Public", FALSE, <<Param("val", "Obj")>>, <<>>)
          [] f = "touch_ctx" ->
                FunctionDef("Public", TRUE,
                            <<Param("mut", "Obj"), Param("mut", "TxContext")>>, <<>>)
          [] f = "look_ctx" ->
                FunctionDef("Public", FALSE,
                            <<Param("imm", "Obj"), Param("imm", "TxContext")>>, <<>>)
          [] f = "ctx_first" ->
                FunctionDef("Public", TRUE,
                            <<Param("mut", "TxContext"), Param("val", "Obj")>>, <<>>)
          [] f = "edit_ctx" ->
                FunctionDef("Public", FALSE,
                            <<Param("imm", "Obj"), Param("mut", "Obj"),
                              Param("mut", "TxContext")>>,
                            <<Param("val", "Obj")>>)
          [] f = "pay" ->
                FunctionDef("Public", FALSE,
                            <<Param("val", "u64"), Param("val", "address")>>, <<>>)
          [] f = "maybe" ->
                FunctionDef("Public", TRUE, <<Param("val", OptionOf("u64"))>>, <<>>)
          [] f = "sign" ->
                FunctionDef("Public", FALSE, <<Param("val", "signer")>>, <<>>)
          [] f = "receive" ->
                FunctionDef("Public", FALSE, <<Param("val", "Receiving<Obj>")>>, <<>>)
          [] f = "peek" ->
                FunctionDef("Public", FALSE, <<Param("imm", "Obj")>>,
                            <<Param("imm", "Obj")>>)
          [] f = "pair" ->
                FunctionDef("Public", TRUE, <<>>,
                            <<Param("val", "u64"), Param("mut", "Obj")>>)
          [] f = "p_peek" ->
                FunctionDef("Private", FALSE, <<>>, <<Param("imm", "Obj")>>)
          [] f = "tweak" ->
                FunctionDef("Private", FALSE, <<Param("mut", "Obj")>>,
                            <<Param("val", "u64")>>)
          [] f = "count" ->
                FunctionDef("Friend", TRUE, <<Param("mut", "Obj")>>,
                            <<Param("val", "u64")>>)
          [] OTHER ->
                FunctionDef("Private", FALSE, <<>>, <<>>)]

(***************************************************************************)
(* Command::MakeMoveVec.  tag is the element type, "" when the command     *)
(* gives none.                                                             *)
(***************************************************************************)
\* the bytes of a value inside a vector
ElemBytes(v) == IF v.kind = "Object" THEN <<v.id>> ELSE v.data

RECURSIVE MakeMoveVecLoop(_, _, _, _, _, _, _)
MakeMoveVecLoop(c, e, elem_ty, args, arg_idx, used, res) ==
    IF args = <<>>
    THEN CmdOk(c, <<LoadedVal(VectorOf(elem_ty), res,
                              get_type_abilities(VectorOf(elem_ty)).copy, used)>>)
    ELSE LET r == by_value_arg(c, "Value", arg_idx, Head(args)) IN
         IF ~r.ok THEN CmdFail(r.ctx, r.err)
         ELSE LET checked == check_param_type(e, arg_idx, r.val, elem_ty)
                  bound == amplification_bound(e.mode, e.protocol_config, elem_ty)
              IN IF checked # NoErr THEN CmdFail(r.ctx, checked)
                 ELSE IF write_bcs_bytes(r.val, bound) # NoErr
                 THEN CmdFail(r.ctx, write_bcs_bytes(r.val, bound))
                 ELSE MakeMoveVecLoop(r.ctx, e, elem_ty, Tail(args), arg_idx + 1,
                                      used \/ was_used_in_non_entry_move_call(r.val),
                                      res \o ElemBytes(r.val))

\* (a variant of MakeMoveVec that drops the mark of the first object when the
\* command gives no element type)
MakeMoveVecFirstMarkDropped(c, e, tag, args) ==
    IF args = <<>>
    THEN IF tag = "" THEN CmdFail(c, Error("InvariantViolation"))
         ELSE CmdOk(c, <<LoadedVal(VectorOf(tag), <<0>>,
                                   get_type_abilities(VectorOf(tag)).copy, FALSE)>>)
    ELSE IF tag # ""
    THEN MakeMoveVecLoop(c, e, tag, args, 0, FALSE, <<Len(args)>>)
    ELSE LET r == by_value_arg(c, "ObjectValue", 0, Head(args))
             bound == amplification_bound(e.mode, e.protocol_config, r.val.ty)
         IN IF ~r.ok THEN CmdFail(r.ctx, r.err)
            ELSE IF write_bcs_bytes(r.val, bound) # NoErr
            THEN CmdFail(r.ctx, write_bcs_bytes(r.val, bound))
            ELSE MakeMoveVecLoop(r.ctx, e, r.val.ty, Tail(args), 1, FALSE,
                                 <<Len(args)>> \o ElemBytes(r.val))

MakeMoveVec(c, e, tag, args) ==
    IF args = <<>>
    THEN IF tag = "" THEN CmdFail(c, Error("InvariantViolation"))
         ELSE CmdOk(c, <<LoadedVal(VectorOf(tag), <<0>>,
                                   get_type_abilities(VectorOf(tag)).copy, FALSE)>>)
    ELSE IF tag # ""
    THEN MakeMoveVecLoop(c, e, tag, args, 0, FALSE, <<Len(args)>>)
    ELSE LET r == by_value_arg(c, "ObjectValue", 0, Head(args))
             bound == amplification_bound(e.mode, e.protocol_config, r.val.ty)
         IN IF ~r.ok THEN CmdFail(r.ctx, r.err)
            ELSE IF write_bcs_bytes(r.val, bound) # NoErr
            THEN CmdFail(r.ctx, write_bcs_bytes(r.val, bound))
            ELSE MakeMoveVecLoop(r.ctx, e, r.val.ty, Tail(args), 1, r.val.used,
                                 <<Len(args)>> \o ElemBytes(r.val))

(***************************************************************************)
(* Command::MoveCall                                                       *)
(***************************************************************************)
INIT_FN_NAME == "init"

EVENT_MODULE == "sui::event"

TRANSFER_MODULE == "sui::transfer"

PRIVATE_TRANSFER_FUNCTIONS == {"transfer", "freeze_object", "share_object", "receive"}

\* (a variant of check_private_generics that lets every function through)
check_private_generics_skipped(module_id, function) == NoErr

check_private_generics(module_id, function) ==
    IF module_id = EVENT_MODULE THEN Error("NonEntryFunctionInvoked")
    ELSE IF module_id = TRANSFER_MODULE /\ function \in PRIVATE_TRANSFER_FUNCTIONS
    THEN Error("NonEntryFunctionInvoked")
    ELSE NoErr

\* (a variant of function_kind that takes a friend function for a public
\* one)
function_kind_friend_as_public(mode, fdef, from_init) ==
    CASE fdef.visibility \in {"Private", "Friend"} /\ fdef.is_entry -> "PrivateEntry"
      [] fdef.visibility = "Public" /\ fdef.is_entry -> "PublicEntry"
      [] fdef.visibility \in {"Public", "Friend"} /\ ~fdef.is_entry -> "NonEntry"
      [] fdef.visibility = "Private" /\ ~fdef.is_entry /\ from_init -> "Init"
      [] OTHER -> IF allow_arbitrary_function_calls(mode) THEN "NonEntry" ELSE ""

function_kind(mode, fdef, from_init) ==
    CASE fdef.visibility \in {"Private", "Friend"} /\ fdef.is_entry -> "PrivateEntry"
      [] fdef.visibility = "Public" /\ fdef.is_entry -> "PublicEntry"
      [] fdef.visibility = "Public" /\ ~fdef.is_entry -> "NonEntry"
      [] fdef.visibility = "Private" /\ ~fdef.is_entry /\ from_init -> "Init"
      [] OTHER -> IF allow_arbitrary_function_calls(mode) THEN "NonEntry" ELSE ""

\* ValueKind of a type: an object when the type has key
ValueKind(ty) ==
    IF get_type_abilities(ty).key
    THEN [kind |-> "Object", ty |-> ty, store |-> get_type_abilities(ty).store,
          copy |-> FALSE]
    ELSE [kind |-> "Raw", ty |-> ty, store |-> FALSE, copy |-> get_type_abilities(ty).copy]

\* (a variant of FirstReferenceReturn that refuses references in every mode)
FirstReferenceReturnEveryMode(mode, return_) ==
    LET bad == {i \in 1..Len(return_) : return_[i].ref # "val"}
    IN IF bad = {} THEN 0 ELSE CHOOSE i \in bad : \A j \in bad : i <= j

\* check_non_entry_signature: the index of the first reference return type
\* that is not allowed, 0 when there is none (indexes from 1 here)
FirstReferenceReturn(mode, return_) ==
    LET bad == {i \in 1..Len(return_) :
                    return_[i].ref # "val" /\ ~allow_arbitrary_values(mode)}
    IN IF bad = {} THEN 0 ELSE CHOOSE i \in bad : \A j \in bad : i <= j

\* (a variant of init_is_banned that lets an entry init through)
init_is_banned_unless_entry(e, function, from_init) ==
    /\ ~from_init /\ IdentOf(function) = INIT_FN_NAME
    /\ e.protocol_config.ban_entry_init
    /\ ~Functions[function].is_entry

\* entry on init is banned: so is invoking it
init_is_banned(e, function, from_init) ==
    /\ ~from_init /\ IdentOf(function) = INIT_FN_NAME
    /\ e.protocol_config.ban_entry_init

check_visibility_and_signature(e, function, from_init) ==
    IF function \notin FunctionNames
    THEN [ok |-> FALSE, kind |-> "", err |-> Error("FunctionNotFound")]
    ELSE IF init_is_banned(e, function, from_init)
    THEN [ok |-> FALSE, kind |-> "", err |-> Error("NonEntryFunctionInvoked")]
    ELSE LET fdef == Functions[function]
             kind == function_kind(e.mode, fdef, from_init)
         IN IF kind = ""
            THEN [ok |-> FALSE, kind |-> "", err |-> Error("NonEntryFunctionInvoked")]
            ELSE IF kind # "Init" /\ FirstReferenceReturn(e.mode, fdef.return_) # 0
            THEN [ok |-> FALSE, kind |-> kind,
                  err |-> [Error("InvalidPublicFunctionReturnType") EXCEPT
                              !.arg = FirstReferenceReturn(e.mode, fdef.return_) - 1]]
            ELSE IF check_private_generics(ModuleOf(function), IdentOf(function)) # NoErr
            THEN [ok |-> FALSE, kind |-> kind,
                  err |-> check_private_generics(ModuleOf(function), IdentOf(function))]
            ELSE [ok |-> TRUE, kind |-> kind, err |-> NoErr]

is_tx_context(param) ==
    IF param.ty = "TxContext" /\ param.ref = "mut" THEN "Mutable"
    ELSE IF param.ty = "TxContext" /\ param.ref = "imm" THEN "Immutable"
    ELSE "None"

tx_ctx_kind(parameters) ==
    IF parameters = <<>> THEN "None" ELSE is_tx_context(parameters[Len(parameters)])

\* (a variant of ArityMatches that does not count the transaction context)
ArityMatchesWithoutContext(kind, parameters, args) ==
    Len(args) + (IF kind = "Init" /\ Len(parameters) = 2 THEN 1 ELSE 0) = Len(parameters)

\* the arity check of build_move_args
ArityMatches(kind, parameters, args) ==
    LET has_one_time_witness == kind = "Init" /\ Len(parameters) = 2
        has_tx_context == tx_ctx_kind(parameters) # "None"
    IN Len(args) + (IF has_one_time_witness THEN 1 ELSE 0)
                 + (IF has_tx_context THEN 1 ELSE 0) = Len(parameters)

\* (variants of ResolveArgument: a shared borrow for a mutable reference; a
\* shared borrow for a value)
ResolveArgumentMutAsShared(c, param, arg_idx, arg) ==
    IF param.ref = "val" THEN by_value_arg(c, "Value", arg_idx, arg)
    ELSE borrow_arg(c, "Value", arg_idx, arg)

ResolveArgumentValueAsShared(c, param, arg_idx, arg) ==
    IF param.ref = "mut" THEN borrow_arg_mut(c, "Value", arg_idx, arg)
    ELSE borrow_arg(c, "Value", arg_idx, arg)

\* How an argument is resolved for a parameter: an exclusive borrow for a
\* mutable reference, a shared borrow for an immutable reference, the
\* value itself otherwise.
ResolveArgument(c, param, arg_idx, arg) ==
    CASE param.ref = "mut" -> borrow_arg_mut(c, "Value", arg_idx, arg)
      [] param.ref = "imm" -> borrow_arg(c, "Value", arg_idx, arg)
      [] OTHER -> by_value_arg(c, "Value", arg_idx, arg)

\* the (index, ValueKind) remembered for an argument passed by &mut
MutRefInfo(param, arg_idx, value) ==
    [i |-> arg_idx,
     kind |-> IF value.kind = "Object"
              THEN [kind |-> "Object", ty |-> value.ty, store |-> value.store,
                    copy |-> FALSE]
              ELSE [kind |-> "Raw", ty |-> param.ty, store |-> FALSE,
                    copy |-> get_type_abilities(param.ty).copy]]

\* One iteration of the loop of build_move_args, for argument cmd.next.
BuildMoveArg(c, e, cmd) ==
    LET arg_idx == cmd.next
        arg == cmd.args[arg_idx + 1]
        param == Functions[cmd.function].parameters[arg_idx + 1]
        r == ResolveArgument(c, param, arg_idx, arg)
    IN IF ~r.ok THEN [ok |-> FALSE, ctx |-> r.ctx, cmd |-> cmd, err |-> r.err]
       ELSE LET cmd1 ==
                   [cmd EXCEPT
                      !.next = @ + 1,
                      !.values = Append(@, r.val),
                      !.by_mut_ref = IF param.ref = "mut"
                                     THEN Append(@, MutRefInfo(param, arg_idx, r.val))
                                     ELSE @,
                      !.by_ref = IF param.ref = "imm" THEN Append(@, arg_idx) ELSE @]
            IN IF cmd.function_kind \in {"PrivateEntry", "Init"}
                  /\ was_used_in_non_entry_move_call(r.val)
               THEN [ok |-> FALSE, ctx |-> r.ctx, cmd |-> cmd1,
                     err |-> command_argument_error(
                                "InvalidArgumentToPrivateEntryFunction", arg_idx)]
               ELSE LET checked == check_param_type(e, arg_idx, r.val, param.ty) IN
                    IF checked # NoErr
                    THEN [ok |-> FALSE, ctx |-> r.ctx, cmd |-> cmd1, err |-> checked]
                    ELSE [ok |-> TRUE, ctx |-> r.ctx, cmd |-> cmd1, err |-> NoErr]

\* (a variant of make_value that never marks the value)
make_value_unmarked(kind, bytes, used_in_non_entry_move_call) ==
    IF kind.kind = "Object"
    THEN ObjectVal(kind.ty, bytes.id, bytes.data, kind.store, FALSE)
    ELSE LoadedVal(kind.ty, bytes.data, kind.copy, FALSE)

\* make_value: a value of the remembered kind from the bytes the VM gave
make_value(kind, bytes, used_in_non_entry_move_call) ==
    IF kind.kind = "Object"
    THEN ObjectVal(kind.ty, bytes.id, bytes.data, kind.store, used_in_non_entry_move_call)
    ELSE LoadedVal(kind.ty, bytes.data, kind.copy, used_in_non_entry_move_call)

\* write_back_results: the &mut arguments are restored in order, then the
\* return values are made.
RECURSIVE WriteBackMutRefs(_, _, _, _, _)
WriteBackMutRefs(c, arguments, non_entry_move_call, mut_ref_values, mut_ref_kinds) ==
    IF mut_ref_values = <<>> \/ mut_ref_kinds = <<>>
    THEN Ok(c, NoneVal)
    ELSE IF Head(mut_ref_values).i # Head(mut_ref_kinds).i
    THEN Fail(c, Error("InvariantViolation"))
    ELSE LET value == make_value(Head(mut_ref_kinds).kind, Head(mut_ref_values).bytes,
                                 non_entry_move_call)
             r == restore_arg(c, arguments[Head(mut_ref_values).i + 1], value)
         IN IF ~r.ok THEN r
            ELSE WriteBackMutRefs(r.ctx, arguments, non_entry_move_call,
                                  Tail(mut_ref_values), Tail(mut_ref_kinds))

write_back_results(c, arguments, non_entry_move_call, mut_ref_values, mut_ref_kinds, return_values, return_value_kinds) ==
    LET w == WriteBackMutRefs(c, arguments, non_entry_move_call,
                              mut_ref_values, mut_ref_kinds)
        n == IF Len(return_values) < Len(return_value_kinds)
             THEN Len(return_values) ELSE Len(return_value_kinds)
    IN IF ~w.ok THEN CmdFail(w.ctx, w.err)
       ELSE CmdOk(w.ctx, [i \in 1..n |->
                             make_value(return_value_kinds[i], return_values[i], TRUE)])

\* What the VM gives back for a successful call: the value of every &mut
\* argument and one value per return type, a returned object having a new
\* id taken from the transaction context.
VmMutableReferenceOutputs(cmd) ==
    [n \in 1..Len(cmd.by_mut_ref) |->
        [i |-> cmd.by_mut_ref[n].i,
         bytes |-> [id |-> cmd.values[cmd.by_mut_ref[n].i + 1].id,
                    data |-> cmd.values[cmd.by_mut_ref[n].i + 1].data]]]

\* a digest that the modules and dependencies of the transaction do not
\* produce: that of other modules, or of the same modules without the
\* dependencies
OtherDigest(e) ==
    IF e.dep_ids = <<>> THEN <<"other", <<>>>> ELSE <<e.module_bytes, <<>>>>

\* the upgrade tickets that a call returns: <<cap, package, policy,
\* digest>>, the digest being that of the modules and dependencies of the
\* transaction or another one
Tickets(e) ==
    {<<1, package, policy, digest>> :
        package \in {10, 12},
        policy \in {"Compatible", "Additive", "DepOnly", "Unknown"},
        digest \in {<<e.module_bytes, e.dep_ids>>, OtherDigest(e)}}

\* the contents that the VM can give to the values of these return types
VmReturnData(e, return_) ==
    IF return_ # <<>> /\ return_[1].ty = "UpgradeTicket" THEN Tickets(e) ELSE {<<>>}

VmReturnValues(c, return_, data) ==
    [n \in 1..Len(return_) |->
        [id |-> IF get_type_abilities(return_[n].ty).key THEN c.ids_created + n ELSE 0,
         data |-> data]]

\* vm_move_call, then write_back_results (execute_move_call after
\* build_move_args)
InvokeAndWriteBack(c, cmd, vm_ok, data) ==
    IF ~vm_ok THEN CmdFail(c, Error("MoveAbort"))
    ELSE LET fdef == Functions[cmd.function]
             outputs == VmMutableReferenceOutputs(cmd)
             c1 == [c EXCEPT !.ids_created = @ + Len(fdef.return_)]
         IN IF Len(cmd.by_mut_ref) # Len(outputs)
            THEN CmdFail(c1, Error("InvariantViolation"))
            ELSE write_back_results(c1, cmd.args, cmd.function_kind = "NonEntry",
                                    outputs, cmd.by_mut_ref,
                                    VmReturnValues(c, fdef.return_, data),
                                    [n \in 1..Len(fdef.return_) |->
                                        ValueKind(fdef.return_[n].ty)])

\* The call with the transaction context.  The bytes of a transaction
\* context carry the number of ids created so far; they are told from the
\* bytes of a value by the id -1.
to_bcs_legacy_context(ids_created) == [id |-> -1, data |-> <<ids_created>>]

IsTxContextBytes(bytes) == bytes.id = -1

\* tx_context.update_state
update_state(c, updated_ctx) == [c EXCEPT !.ids_created = updated_ctx.data[1]]

\* the arguments given to the VM: the bytes of the values, then the
\* transaction context when the function takes it
SerializedArguments(c, cmd) ==
    (IF cmd.function_kind = "Init" /\ Len(Functions[cmd.function].parameters) = 2
     THEN <<[id |-> 0, data |-> <<1>>]>> ELSE <<>>)
       \o [n \in 1..Len(cmd.values) |->
              [id |-> cmd.values[n].id, data |-> cmd.values[n].data]]
       \o (IF tx_ctx_kind(Functions[cmd.function].parameters) = "None" THEN <<>>
           ELSE <<to_bcs_legacy_context(c.ids_created)>>)

\* What a VM can give back.  "exact": an output for every &mut argument in
\* order, then the transaction context if the function takes it by &mut,
\* with the ids it created.  The other shapes are those of a VM that breaks
\* this contract: an output is lost, one is added, one has another index,
\* the context is missing or comes first.
VmOutputShapes ==
    {"exact", "lost", "spurious", "misindexed", "no_context", "context_first"}

VmContextOutput(c, cmd, created) ==
    IF tx_ctx_kind(Functions[cmd.function].parameters) = "Mutable"
    THEN <<[i |-> Len(Functions[cmd.function].parameters) - 1,
            bytes |-> to_bcs_legacy_context(
                         c.ids_created + Len(Functions[cmd.function].return_) + created)]>>
    ELSE <<>>

VmOutputsOf(explicit, context_output, shape) ==
    CASE shape = "lost" /\ explicit # <<>> -> Tail(explicit) \o context_output
      [] shape = "spurious" ->
            explicit \o <<[i |-> 0, bytes |-> [id |-> 9, data |-> <<>>]]>> \o context_output
      [] shape = "misindexed" /\ explicit # <<>> ->
            <<[Head(explicit) EXCEPT !.i = @ + 1]>> \o Tail(explicit) \o context_output
      [] shape = "no_context" -> explicit
      [] shape = "context_first" -> context_output \o explicit
      [] OTHER -> explicit \o context_output

VmOutputs(c, cmd, shape, created) ==
    VmOutputsOf(VmMutableReferenceOutputs(cmd), VmContextOutput(c, cmd, created), shape)

VmOk(c, outputs) == [ok |-> TRUE, ctx |-> c, mutable_reference_outputs |-> outputs, err |-> NoErr]

VmFail(c, e) == [ok |-> FALSE, ctx |-> c, mutable_reference_outputs |-> <<>>, err |-> e]

Front(seq) == SubSeq(seq, 1, Len(seq) - 1)

\* (a variant of vm_move_call that leaves the transaction context among the
\* outputs)
vm_move_call_without_pop(c, cmd, tx_context_kind, vm_ok, outputs) ==
    IF ~vm_ok THEN VmFail(c, Error("MoveAbort"))
    ELSE VmOk([c EXCEPT !.ids_created = @ + Len(Functions[cmd.function].return_)],
              outputs)

\* vm_move_call: the VM runs the function on the serialized arguments; the
\* last output is popped and applied to the transaction context when the
\* function takes the context by &mut
vm_move_call(c, cmd, tx_context_kind, vm_ok, outputs) ==
    IF ~vm_ok THEN VmFail(c, Error("MoveAbort"))
    ELSE IF tx_context_kind # "Mutable"
    THEN VmOk([c EXCEPT !.ids_created = @ + Len(Functions[cmd.function].return_)],
              outputs)
    ELSE IF outputs = <<>> THEN VmFail(c, Error("InvariantViolation"))
    ELSE IF ~IsTxContextBytes(outputs[Len(outputs)].bytes)
    THEN VmFail(c, Error("InvariantViolation"))
    ELSE VmOk(update_state(c, outputs[Len(outputs)].bytes), Front(outputs))

\* execute_move_call after vm_move_call: the number of outputs, then
\* write_back_results
WriteBackOutputs(c, cmd, r, data) ==
    IF ~r.ok THEN CmdFail(r.ctx, r.err)
    ELSE IF Len(cmd.by_mut_ref) # Len(r.mutable_reference_outputs)
    THEN CmdFail(r.ctx, Error("InvariantViolation"))
    ELSE write_back_results(r.ctx, cmd.args, cmd.function_kind = "NonEntry",
                            r.mutable_reference_outputs, cmd.by_mut_ref,
                            VmReturnValues(c, Functions[cmd.function].return_, data),
                            [n \in 1..Len(Functions[cmd.function].return_) |->
                                ValueKind(Functions[cmd.function].return_[n].ty)])

(***************************************************************************)
(* Packages.  Module bytes are named.  A module has a name, declarations,  *)
(* the code of its declarations, an initializer ("none", or what the call  *)
(* of its init does: "ok" or "abort") and what verification says of it     *)
(* ("ok", or the verifier that rejects it: "vm" or "sui").  A package has  *)
(* a storage id, the id of its original package (its runtime id) and       *)
(* modules.                                                                *)
(***************************************************************************)
Module(name, decls, code, init, verifies) ==
    [name |-> name, decls |-> decls, code |-> code, init |-> init, verifies |-> verifies]

ModuleBytes == {"same", "more", "changed", "less", "extra", "unverified", "junk"}

\* context.deserialize_modules
deserialize_modules(module_bytes) ==
    CASE module_bytes = "same" ->
            [ok |-> TRUE, modules |-> <<Module("m", {"f"}, "a", "none", "ok")>>]
      [] module_bytes = "more" ->
            [ok |-> TRUE, modules |-> <<Module("m", {"f", "g"}, "a", "ok", "ok")>>]
      [] module_bytes = "changed" ->
            [ok |-> TRUE, modules |-> <<Module("m", {"f"}, "b", "none", "ok")>>]
      [] module_bytes = "less" ->
            [ok |-> TRUE, modules |-> <<Module("m", {"g"}, "a", "none", "ok")>>]
      [] module_bytes = "extra" ->
            [ok |-> TRUE, modules |-> <<Module("m", {"f"}, "a", "ok", "ok"),
                                        Module("n", {"h"}, "a", "abort", "ok")>>]
      [] module_bytes = "unverified" ->
            [ok |-> TRUE, modules |-> <<Module("m", {"f", "g"}, "a", "none", "sui")>>]
      [] module_bytes = "witness_only" ->
            [ok |-> TRUE, modules |-> <<Module("b", {"f"}, "a", "ok", "ok")>>]
      [] module_bytes = "ordered" ->
            [ok |-> TRUE, modules |-> <<Module("n", {"h"}, "a", "ok", "ok"),
                                        Module("k", {"f"}, "a", "none", "ok"),
                                        Module("m", {"f"}, "a", "ok", "ok")>>]
      [] module_bytes = "failing" ->
            [ok |-> TRUE, modules |-> <<Module("n", {"h"}, "a", "abort", "ok"),
                                        Module("b", {"f"}, "a", "ok", "ok"),
                                        Module("m", {"f"}, "a", "ok", "ok")>>]
      [] module_bytes = "witness_first" ->
            [ok |-> TRUE, modules |-> <<Module("m", {"f"}, "a", "ok", "ok"),
                                        Module("b", {"f"}, "a", "ok", "ok"),
                                        Module("n", {"h"}, "a", "abort", "ok")>>]
      [] module_bytes = "half_verified" ->
            [ok |-> TRUE, modules |-> <<Module("m", {"f"}, "a", "ok", "ok"),
                                        Module("n", {"h"}, "a", "ok", "sui")>>]
      [] OTHER -> [ok |-> FALSE, modules |-> <<>>]

Package(id, original, modules) == [id |-> id, original |-> original, modules |-> modules]

\* the packages of the store when the transaction starts
StoredPackages ==
    {Package(10, 10, deserialize_modules("same").modules),
     Package(20, 20, deserialize_modules("extra").modules),
     Package(30, 30, deserialize_modules("more").modules)}

DepLists == {<<>>, <<99>>}

PackageIds == {10, 12}

\* MovePackage::compute_digest_for_modules_and_deps: a digest stands for
\* what it digests
compute_digest_for_modules_and_deps(module_bytes, dep_ids) == <<module_bytes, dep_ids>>

fetch_packages(sv, package_ids) ==
    LET ids == {package_ids[n] : n \in 1..Len(package_ids)}
    IN IF \A id \in ids : \E p \in sv.packages : p.id = id
       THEN [ok |-> TRUE, packages |-> {p \in sv.packages : p.id \in ids}, err |-> NoErr]
       ELSE [ok |-> FALSE, packages |-> {},
             err |-> Error("PublishUpgradeMissingDependency")]

fetch_package(sv, package_id) == fetch_packages(sv, <<package_id>>)

\* the package table of the transaction
write_package(c, package) == [c EXCEPT !.new_packages = Append(@, package)]

pop_package(c) == [c EXCEPT !.new_packages = SubSeq(@, 1, Len(@) - 1)]

\* publish_module_bundle of the VM, then the Sui verifier on every module
publish_and_verify_modules(modules) ==
    IF \E n \in 1..Len(modules) : modules[n].verifies = "vm"
    THEN Error("VMVerificationOrDeserializationError")
    ELSE IF \E n \in 1..Len(modules) : modules[n].verifies = "sui"
    THEN Error("SuiMoveVerificationError")
    ELSE NoErr

UpgradePolicies == {"Compatible", "Additive", "DepOnly"}

\* (a variant of check_module_compatibility that asks for equality under
\* the Additive policy too)
check_module_compatibility_equal(policy, cur_module, new_module) ==
    IF policy \in {"Additive", "DepOnly"}
    THEN cur_module.decls = new_module.decls /\ cur_module.code = new_module.code
    ELSE cur_module.decls \subseteq new_module.decls

\* InclusionCheck::Subset, InclusionCheck::Equal and
\* Compatibility::upgrade_check
check_module_compatibility(policy, cur_module, new_module) ==
    CASE policy = "Additive" ->
            cur_module.decls \subseteq new_module.decls /\ cur_module.code = new_module.code
      [] policy = "DepOnly" ->
            cur_module.decls = new_module.decls /\ cur_module.code = new_module.code
      [] OTHER -> cur_module.decls \subseteq new_module.decls

\* (a variant of disallow_new_modules that never disallows)
disallow_new_modules_never(protocol_config, policy) == FALSE

disallow_new_modules(protocol_config, policy) ==
    /\ protocol_config.disallow_new_modules_in_deps_only_packages
    /\ policy = "DepOnly"

check_compatibility(protocol_config, existing_package, upgrading_modules, policy) ==
    IF policy \notin UpgradePolicies THEN Error("UnknownUpgradePolicy")
    ELSE LET current == existing_package.modules
             new_named(name) ==
                 {n \in 1..Len(upgrading_modules) : upgrading_modules[n].name = name}
         IN IF disallow_new_modules(protocol_config, policy)
                  /\ Len(current) # Len(upgrading_modules)
            THEN Error("IncompatibleUpgrade")
            ELSE IF \E m \in 1..Len(current) :
                       \/ new_named(current[m].name) = {}
                       \/ \E n \in new_named(current[m].name) :
                             ~check_module_compatibility(policy, current[m],
                                                         upgrading_modules[n])
            THEN Error("IncompatibleUpgrade")
            ELSE NoErr

(***************************************************************************)
(* Command::Publish.  fault is the collaborator that fails, if one does:   *)
(* "charge" (the gas charger), "new_package" (context.new_package),        *)
(* "fresh_id" (context.fresh_id for the capability).                       *)
(***************************************************************************)
PublishFaults == {"", "charge", "new_package", "fresh_id"}

\* the function of a module that is named init
InitFunction(module) ==
    CASE module.name = "n" -> "n_init"
      [] module.name = "b" -> "b_init"
      [] OTHER -> "init"

\* execute_move_call of the initializer of a module; init_calls keeps the
\* modules for whose initializer execute_move_call has been called, in the
\* order of the calls
InitModuleChecked(called, chk, module) ==
    IF ~chk.ok THEN CmdFail(called, chk.err)
    ELSE IF ~ArityMatches(chk.kind, Functions[InitFunction(module)].parameters, <<>>)
    THEN CmdFail(called, Error("ArityMismatch"))
    ELSE InvokeAndWriteBack(called,
                            [Command("MoveCall", NoArg, <<>>) EXCEPT
                                !.function = InitFunction(module),
                                !.function_kind = chk.kind],
                            module.init = "ok", <<>>)

InitModule(c, e, module) ==
    InitModuleChecked([c EXCEPT !.init_calls = Append(@, module.name)],
                      check_visibility_and_signature(e, InitFunction(module), TRUE),
                      module)

\* (a variant of init_modules that goes on after an initializer failed and
\* returns the first error at the end)
RECURSIVE init_modules_unstopped(_, _, _)
init_modules_unstopped(c, e, modules) ==
    IF modules = <<>> THEN CmdOk(c, <<>>)
    ELSE IF Head(modules).init = "none" THEN init_modules_unstopped(c, e, Tail(modules))
    ELSE LET r == InitModule(c, e, Head(modules))
             rest == init_modules_unstopped(r.ctx, e, Tail(modules))
         IN IF ~r.ok THEN CmdFail(rest.ctx, r.err) ELSE rest

RECURSIVE init_modules(_, _, _)

\* the initializer of a module returned r: its error ends the loop, and it
\* must have no return values
InitModuleReturned(r, e, modules) ==
    IF ~r.ok THEN r
    ELSE IF r.results # <<>> THEN CmdFail(r.ctx, Error("InvariantViolation"))
    ELSE init_modules(r.ctx, e, modules)

init_modules(c, e, modules) ==
    IF modules = <<>> THEN CmdOk(c, <<>>)
    ELSE IF Head(modules).init = "none" THEN init_modules(c, e, Tail(modules))
    ELSE InitModuleReturned(InitModule(c, e, Head(modules)), e, Tail(modules))

\* publish_and_verify_modules(..).and_then(|_| init_modules(..))
VerifyAndInit(c, e, verified, modules) ==
    IF verified # NoErr THEN CmdFail(c, verified) ELSE init_modules(c, e, modules)

\* (a variant of PublishVerified whose capability cannot be transferred
\* publicly)
PublishVerifiedPrivateCap(res, predefined, fault, storage_id) ==
    IF ~res.ok THEN CmdFail(pop_package(res.ctx), res.err)
    ELSE IF predefined THEN CmdOk(res.ctx, <<>>)
    ELSE IF fault = "fresh_id" THEN CmdFail(res.ctx, Error("InvariantViolation"))
    ELSE LET f == fresh_id(res.ctx) IN
         CmdOk(f.ctx, <<ObjectVal("UpgradeCap", f.id, <<storage_id>>, FALSE, FALSE)>>)

\* after verification and the initializers: the package is removed on an
\* error, otherwise the upgrade capability is made
PublishVerified(res, predefined, fault, storage_id) ==
    IF ~res.ok THEN CmdFail(pop_package(res.ctx), res.err)
    ELSE IF predefined THEN CmdOk(res.ctx, <<>>)
    ELSE IF fault = "fresh_id" THEN CmdFail(res.ctx, Error("InvariantViolation"))
    ELSE LET f == fresh_id(res.ctx) IN
         CmdOk(f.ctx, <<ObjectVal("UpgradeCap", f.id, <<storage_id>>, TRUE, FALSE)>>)

\* from the fresh id of the package on
PublishModules(c, c1, e, fault, d, dependencies, runtime_id) ==
    IF ~d.ok THEN CmdFail(c, Error("VMVerificationOrDeserializationError"))
    ELSE IF ~dependencies.ok THEN CmdFail(c1, dependencies.err)
    ELSE IF fault = "new_package" THEN CmdFail(c1, Error("PublishErrorNonZeroAddress"))
    ELSE PublishVerified(VerifyAndInit(write_package(c1, Package(runtime_id, runtime_id,
                                                                 d.modules)),
                                       e, publish_and_verify_modules(d.modules),
                                       d.modules),
                         packages_are_predefined(e.mode), fault, runtime_id)

execute_move_publish(c, e, sv, fault, module_bytes, dep_ids) ==
    IF fault = "charge" THEN CmdFail(c, Error("InsufficientGas"))
    ELSE PublishModules(c,
                        IF packages_are_predefined(e.mode) THEN c
                        ELSE [c EXCEPT !.ids_created = @ + 1],
                        e, fault, deserialize_modules(module_bytes),
                        fetch_packages(sv, dep_ids),
                        IF packages_are_predefined(e.mode) THEN 0 ELSE c.ids_created + 1)

(***************************************************************************)
(* Command::Upgrade.  fault: "charge" (the gas charger) or                 *)
(* "upgrade_package" (context.upgrade_package).                            *)
(***************************************************************************)
UpgradeFaults == {"", "charge", "upgrade_package"}

\* bcs::from_bytes of the bytes of the ticket
UpgradeTicket(data) ==
    [cap |-> data[1], package |-> data[2], policy |-> data[3], digest |-> data[4]]

IsTicketBytes(v) == Len(v.data) = 4

\* (a variant of UpgradeDigestMatches that accepts every digest)
UpgradeDigestUnchecked(computed_digest, upgrade_ticket) == TRUE

\* (a variant of UpgradeDigestMatches that compares the module part of the
\* digests only)
UpgradeDigestModulesOnly(computed_digest, upgrade_ticket) ==
    computed_digest[1] = upgrade_ticket.digest[1]

\* the digest check
UpgradeDigestMatches(computed_digest, upgrade_ticket) ==
    computed_digest = upgrade_ticket.digest

\* (a variant of UpgradedPackage that keeps the id of the predecessor as
\* storage id)
UpgradedPackageKeepsId(storage_id, runtime_id, modules) ==
    Package(runtime_id, runtime_id, modules)

\* the package of an upgrade: the storage id is new, the runtime id is that
\* of the package that is upgraded
UpgradedPackage(storage_id, runtime_id, modules) ==
    Package(storage_id, runtime_id, modules)

\* from the fetch of the current package on
UpgradeChecked(c, e, sv, fault, module_bytes, dep_ids, upgrade_ticket) ==
    LET fetched == fetch_package(sv, upgrade_ticket.package)
        current_package == CHOOSE p \in fetched.packages : TRUE
        d == deserialize_modules(module_bytes)
        runtime_id == current_package.original
        storage_id == c.ids_created + 1
        c1 == [c EXCEPT !.ids_created = @ + 1]
        dependencies == fetch_packages(sv, dep_ids)
        package == UpgradedPackage(storage_id, runtime_id, d.modules)
        verified == publish_and_verify_modules(d.modules)
        compatible == check_compatibility(e.protocol_config, current_package, d.modules,
                                          upgrade_ticket.policy)
    IN IF ~fetched.ok THEN CmdFail(c, fetched.err)
       ELSE IF ~d.ok THEN CmdFail(c, Error("VMVerificationOrDeserializationError"))
       ELSE IF ~dependencies.ok THEN CmdFail(c1, dependencies.err)
       ELSE IF fault = "upgrade_package"
       THEN CmdFail(c1, Error("PackageUpgradeError"))
       ELSE IF verified # NoErr THEN CmdFail(c1, verified)
       ELSE IF compatible # NoErr THEN CmdFail(c1, compatible)
       ELSE CmdOk(write_package(c1, package),
                  <<LoadedVal("UpgradeReceipt", <<upgrade_ticket.cap, storage_id>>,
                              FALSE, FALSE)>>)

\* (a variant of TakeTicket that leaves the ticket in its slot)
TakeTicketCopied(c, upgrade_ticket_arg) ==
    [by_value_arg(c, "Value", 0, upgrade_ticket_arg) EXCEPT !.ctx = c]

\* the ticket is taken by value
TakeTicket(c, upgrade_ticket_arg) == by_value_arg(c, "Value", 0, upgrade_ticket_arg)

execute_move_upgrade(c, e, sv, fault, module_bytes, dep_ids, current_package_id, upgrade_ticket_arg) ==
    IF fault = "charge" THEN CmdFail(c, Error("InsufficientGas"))
    ELSE LET t == TakeTicket(c, upgrade_ticket_arg) IN
         IF ~t.ok THEN CmdFail(t.ctx, t.err)
         ELSE IF check_param_type(e, 0, t.val, "UpgradeTicket") # NoErr
         THEN CmdFail(t.ctx, check_param_type(e, 0, t.val, "UpgradeTicket"))
         ELSE IF write_bcs_bytes(t.val, amplification_bound(e.mode, e.protocol_config,
                                                            "UpgradeTicket")) # NoErr
         THEN CmdFail(t.ctx, write_bcs_bytes(t.val,
                                 amplification_bound(e.mode, e.protocol_config,
                                                     "UpgradeTicket")))
         ELSE IF ~IsTicketBytes(t.val)
         THEN CmdFail(t.ctx, command_argument_error("InvalidBCSBytes", 0))
         ELSE LET upgrade_ticket == UpgradeTicket(t.val.data)
                  computed_digest ==
                      compute_digest_for_modules_and_deps(module_bytes, dep_ids)
              IN IF current_package_id # upgrade_ticket.package
                 THEN CmdFail(t.ctx, Error("PackageIDDoesNotMatch"))
                 ELSE IF ~UpgradeDigestMatches(computed_digest, upgrade_ticket)
                 THEN CmdFail(t.ctx, Error("DigestDoesNotMatch"))
                 ELSE UpgradeChecked(t.ctx, e, sv, fault, module_bytes, dep_ids,
                                     upgrade_ticket)

(***************************************************************************)
(* execute_inner: the command loop.                                        *)
(*   pc "idle"    between two commands (the head of the loop)              *)
(*      "args"    a Move call is resolving its arguments (build_move_args) *)
(*      "finish"  the body of the command returned its results             *)
(*      "failed"  a command failed, execute_inner returned its error       *)
(*      "done"    execute_inner returned after the last command            *)
(* history.non_entry_returns records the ids of the objects that non-entry *)
(* calls have returned.                                                    *)
(***************************************************************************)
\* The transactions that are enumerated put objects where a command takes
\* objects and pure values where it takes pure values, and one argument of
\* the other sort: the object inputs come first in the input table, the
\* results of earlier commands count as objects.
ObjectArgs(c) ==
    {a \in ValidArgs(c) : a.k = "Result" \/ a.i < env.objects}

PureArgs(c) ==
    {a \in ValidArgs(c) : a.k = "Input" /\ a.i >= env.objects}

ObjectPool(c) ==
    ObjectArgs(c) \cup {a \in PureArgs(c) : a.i = env.objects}

PurePool(c) ==
    PureArgs(c) \cup {a \in ObjectArgs(c) : a.k = "Input" /\ a.i = 0}

\* sequences of 1..MaxArgs arguments of a pool
ArgLists(pool) == UNION {[1..n -> pool] : n \in 1..MaxArgs}

\* (a variant of with_command_index that gives the next index)
with_command_index_next(e, i) == [e EXCEPT !.cmd = i + 1]

with_command_index(e, i) == [e EXCEPT !.cmd = i]

\* (a variant of save_loaded_runtime_objects that saves nothing)
loaded_runtime_objects_dropped(view) == view

\* state_view.save_loaded_runtime_objects: the view counts how many times
\* the loaded runtime objects were handed to it
save_loaded_runtime_objects(view) ==
    [view EXCEPT !.loaded_runtime_objects = @ + 1]

\* (a variant of CommandFailed that pushes no timing for the failed command)
CommandFailedWithoutTiming(c, cmd, e) ==
    /\ context' = c
    /\ cur' = cmd
    /\ state_view' = save_loaded_runtime_objects(state_view)
    /\ err' = with_command_index(e, idx)
    /\ pc' = "failed"
    /\ UNCHANGED <<env, idx, history, timings>>

\* (a variant of CommandFailed that undoes what the transaction did)
CommandFailedRolledBack(c, cmd, e) ==
    /\ context' = [c EXCEPT !.transfers = {}, !.deleted = {}, !.new_ids = {},
                            !.new_packages = <<>>]
    /\ cur' = cmd
    /\ state_view' = save_loaded_runtime_objects(state_view)
    /\ timings' = Append(timings, "Abort")
    /\ err' = with_command_index(e, idx)
    /\ pc' = "failed"
    /\ UNCHANGED <<env, idx, history>>

\* A failed command: the loaded runtime objects are saved, the timing is an
\* Abort, the error gets the index of the command and the loop is left.
CommandFailed(c, cmd, e) ==
    /\ context' = c
    /\ cur' = cmd
    /\ state_view' = save_loaded_runtime_objects(state_view)
    /\ timings' = Append(timings, "Abort")
    /\ err' = with_command_index(e, idx)
    /\ pc' = "failed"
    /\ UNCHANGED <<env, idx, history>>

\* The body of a command returned: its results wait for finish_command and
\* push_command_results.
CommandReturned(c, cmd, results) ==
    /\ context' = c
    /\ cur' = [cmd EXCEPT !.results = results]
    /\ pc' = "finish"
    /\ history' =
          IF cmd.kind = "MoveCall" /\ cmd.function_kind = "NonEntry"
          THEN [history EXCEPT !.non_entry_returns =
                   @ \cup {results[n].id : n \in {m \in 1..Len(results) :
                                                     results[m].kind = "Object"}}]
          ELSE history
    /\ UNCHANGED <<env, idx, err, timings, state_view>>

Run(cmd, r) ==
    IF r.ok THEN CommandReturned(r.ctx, cmd, r.results) ELSE CommandFailed(r.ctx, cmd, r.err)

SplitCoinsCommand ==
    /\ pc = "idle" /\ idx < env.commands
    /\ \E coin_arg \in ObjectPool(context), amount_args \in ArgLists(PurePool(context)) :
          Run(Command("SplitCoins", coin_arg, amount_args),
              SplitCoins(context, coin_arg, amount_args))

MergeCoinsCommand ==
    /\ pc = "idle" /\ idx < env.commands
    /\ \E target_arg \in ObjectPool(context), coin_args \in ArgLists(ObjectPool(context)) :
          Run(Command("MergeCoins", target_arg, coin_args),
              MergeCoins(context, target_arg, coin_args))

TransferObjectsCommand ==
    /\ pc = "idle" /\ idx < env.commands
    /\ \E objs \in ArgLists(ObjectPool(context)), addr_arg \in PurePool(context) :
          Run(Command("TransferObjects", addr_arg, objs),
              TransferObjects(context, objs, addr_arg))

MakeMoveVecCommand ==
    /\ pc = "idle" /\ idx < env.commands
    /\ \E tag \in {"", "Obj", "u64"}, args \in ArgLists(ObjectPool(context)) \cup {<<>>} :
          Run([Command("MakeMoveVec", NoArg, args) EXCEPT !.function = tag],
              MakeMoveVec(context, env, tag, args))

PublishCommand ==
    /\ pc = "idle" /\ idx < env.commands
    /\ \E fault \in PublishFaults :
          Run([Command("Publish", NoArg, <<>>) EXCEPT
                  !.modules = env.module_bytes, !.dep_ids = env.dep_ids, !.fault = fault],
              execute_move_publish(context, env, state_view, fault,
                                   env.module_bytes, env.dep_ids))

UpgradeCommand ==
    /\ pc = "idle" /\ idx < env.commands
    /\ \E current_package_id \in PackageIds, upgrade_ticket \in ObjectPool(context),
          fault \in UpgradeFaults :
          Run([Command("Upgrade", upgrade_ticket, <<>>) EXCEPT
                  !.modules = env.module_bytes, !.dep_ids = env.dep_ids,
                  !.package_id = current_package_id, !.fault = fault],
              execute_move_upgrade(context, env, state_view, fault,
                                   env.module_bytes, env.dep_ids,
                                   current_package_id, upgrade_ticket))

\* (a variant of MoveCallCommand that takes the first argument before the
\* checks)
MoveCallCommandArgumentFirst ==
    /\ pc = "idle" /\ idx < env.commands
    /\ \E function \in env.functions,
          args \in ArgLists(ObjectPool(context)) \cup {<<>>} :
          LET chk == check_visibility_and_signature(env, function, FALSE)
              cmd == [Command("MoveCall", NoArg, args) EXCEPT
                         !.function = function, !.function_kind = chk.kind]
              taken == IF args = <<>> THEN context
                       ELSE by_value_arg(context, "Value", 0, args[1]).ctx
          IN IF ~chk.ok THEN CommandFailed(taken, cmd, chk.err)
             ELSE IF ~ArityMatches(chk.kind, Functions[function].parameters, args)
             THEN CommandFailed(taken, cmd, Error("ArityMismatch"))
             ELSE /\ cur' = cmd
                  /\ pc' = "args"
                  /\ UNCHANGED <<env, context, idx, err, timings, state_view, history>>

\* A Move call starts: the function is looked up and checked
\* (check_visibility_and_signature), then the arity (build_move_args).
MoveCallCommand ==
    /\ pc = "idle" /\ idx < env.commands
    /\ \E function \in env.functions,
          args \in ArgLists(ObjectPool(context)) \cup {<<>>} :
          LET chk == check_visibility_and_signature(env, function, FALSE)
              cmd == [Command("MoveCall", NoArg, args) EXCEPT
                         !.function = function, !.function_kind = chk.kind]
          IN IF ~chk.ok THEN CommandFailed(context, cmd, chk.err)
             ELSE IF ~ArityMatches(chk.kind, Functions[function].parameters, args)
             THEN CommandFailed(context, cmd, Error("ArityMismatch"))
             ELSE /\ cur' = cmd
                  /\ pc' = "args"
                  /\ UNCHANGED <<env, context, idx, err, timings, state_view, history>>

\* The next argument of the Move call is resolved and checked.
MoveCallArgument ==
    /\ pc = "args" /\ cur.next < Len(cur.args)
    /\ LET b == BuildMoveArg(context, env, cur) IN
       IF ~b.ok THEN CommandFailed(b.ctx, b.cmd, b.err)
       ELSE /\ context' = b.ctx
            /\ cur' = b.cmd
            /\ UNCHANGED <<env, pc, idx, err, timings, state_view, history>>

\* All arguments are resolved: the VM runs the function and the results
\* are written back.
MoveCallInvoke ==
    /\ pc = "args" /\ cur.next = Len(cur.args)
    /\ \E vm_ok \in BOOLEAN, data \in VmReturnData(env, Functions[cur.function].return_) :
          Run(cur, InvokeAndWriteBack(context, cur, vm_ok, data))

\* All arguments are resolved: the VM runs the function on the serialized
\* arguments and gives outputs of one of the shapes, the context is
\* updated and the results are written back.
MoveCallReturns ==
    /\ pc = "args" /\ cur.next = Len(cur.args)
    /\ \E vm_ok \in BOOLEAN, shape \in VmOutputShapes, created \in {0, 1} :
          Run([cur EXCEPT
                  !.serialized_arguments = SerializedArguments(context, cur),
                  !.mutable_reference_outputs =
                     IF vm_ok THEN VmOutputs(context, cur, shape, created) ELSE <<>>,
                  !.fault = IF vm_ok THEN "" ELSE "abort"],
              WriteBackOutputs(context, cur,
                               vm_move_call(context, cur,
                                            tx_ctx_kind(Functions[cur.function].parameters),
                                            vm_ok,
                                            VmOutputs(context, cur, shape, created)),
                               <<>>))

\* Mode::finish_command, push_command_results and the Success timing.
FinishCommand ==
    /\ pc = "finish"
    /\ LET r == push_command_results(context, cur.results) IN
       IF r.ok
       THEN /\ context' = r.ctx
            /\ timings' = Append(timings, "Success")
            /\ idx' = idx + 1
            /\ pc' = "idle"
            /\ cur' = NoCommand
            /\ UNCHANGED <<env, err, state_view, history>>
       ELSE CommandFailed(r.ctx, cur, r.err)

\* (a variant of Finish that records the results also when context.finish
\* failed)
FinishRecordingAlways ==
    /\ pc = "idle"
    /\ \E finished \in BOOLEAN :
          /\ state_view' =
                [save_loaded_runtime_objects(state_view) EXCEPT
                    !.wrapped_object_containers = @ + 1,
                    !.execution_results = @ + 1]
          /\ err' = IF finished THEN NoErr ELSE Error("FinishFailed")
    /\ pc' = "done"
    /\ UNCHANGED <<env, context, idx, cur, timings, history>>

\* After the last command: the loaded objects and the wrapped object
\* containers are saved, and the results of context.finish are recorded
\* unless it failed.
Finish ==
    /\ pc = "idle"
    /\ \E finished \in BOOLEAN :
          /\ state_view' =
                [save_loaded_runtime_objects(state_view) EXCEPT
                    !.wrapped_object_containers = @ + 1,
                    !.execution_results = @ + (IF finished THEN 1 ELSE 0)]
          /\ err' = IF finished THEN NoErr ELSE Error("FinishFailed")
    /\ pc' = "done"
    /\ UNCHANGED <<env, context, idx, cur, timings, history>>

(***************************************************************************)
(* Initial states: the context made by ExecutionContext::new from the      *)
(* inputs of the transaction.                                              *)
(***************************************************************************)
\* the limits of the protocol configuration: no bound on the size of the
\* values of a transaction unless the transactions are about it
NoValueSize ==
    [max_ptb_value_size |-> <<>>, max_ptb_value_size_v2 |-> TRUE,
     max_move_value_depth |-> 4]

Config(ban, disallow, limits) ==
    [ban_entry_init |-> ban,
     disallow_new_modules_in_deps_only_packages |-> disallow,
     max_ptb_value_size |-> limits.max_ptb_value_size,
     max_ptb_value_size_v2 |-> limits.max_ptb_value_size_v2,
     max_move_value_depth |-> limits.max_move_value_depth]

DefaultConfig == Config(TRUE, TRUE, NoValueSize)

NewContext(inputs, ids) ==
    [inputs |-> inputs, results |-> <<>>, borrowed |-> <<>>,
     ids_created |-> ids, new_ids |-> {}, deleted |-> {}, transfers |-> {},
     new_packages |-> <<>>, init_calls |-> <<>>,
     linkage |-> <<>>, linkage_ops |-> <<>>]

\* env is what does not change during the execution: the execution mode,
\* the protocol configuration and what bounds the transactions that are
\* enumerated (the number of commands, the number of object inputs, the
\* functions called, the module bytes and the dependency ids that the
\* Publish and Upgrade commands of the transaction carry).
InitWith(inputs, objects, modes, functions, commands, configs, bytes, deps) ==
    /\ env \in [mode : modes, objects : {objects}, functions : {functions},
                commands : {commands}, protocol_config : configs,
                module_bytes : bytes, dep_ids : deps]
    /\ context = NewContext(inputs, objects)
    /\ pc = "idle"
    /\ idx = 0
    /\ cur = NoCommand
    /\ err = NoErr
    /\ timings = <<>>
    /\ state_view =
          [loaded_runtime_objects |-> 0, wrapped_object_containers |-> 0,
           execution_results |-> 0, packages |-> StoredPackages]
    /\ history = [non_entry_returns |-> {}]

\* SplitCoins transactions: two coins, a non-coin object, three amounts, an
\* address.
SplitInputs ==
    <<CoinVal("Coin<A>", 1, 2), CoinVal("Coin<B>", 2, 1),
      ObjectVal("Obj", 3, <<>>, FALSE, FALSE),
      AnyVal("bytes8", <<1>>), AnyVal("bytes8", <<2>>), AnyVal("bytes32", <<7>>)>>

InitSplit == InitWith(SplitInputs, 3, {"Normal"}, {}, MaxCommands, {DefaultConfig}, {"same"}, {<<>>})

NextSplit ==
    \/ SplitCoinsCommand
    \/ TransferObjectsCommand
    \/ FinishCommand
    \/ Finish

SpecSplit == InitSplit /\ [][NextSplit]_vars

\* MergeCoins transactions: coins of two types, a non-coin object, an
\* address.
MergeInputs ==
    <<CoinVal("Coin<A>", 1, 2), CoinVal("Coin<A>", 2, 1), CoinVal("Coin<B>", 3, 3),
      CoinVal("Coin<A>", 4, 1), CoinVal("Coin<B>", 5, 2),
      ObjectVal("Obj", 6, <<>>, FALSE, FALSE),
      AnyVal("bytes32", <<7>>)>>

InitMerge == InitWith(MergeInputs, 6, {"Normal"}, {}, MaxCommands, {DefaultConfig}, {"same"}, {<<>>})

NextMerge ==
    \/ MergeCoinsCommand
    \/ TransferObjectsCommand
    \/ FinishCommand
    \/ Finish

SpecMerge == InitMerge /\ [][NextMerge]_vars

\* Move call transactions: two objects, a coin, an amount, an address.
CallInputs ==
    <<ObjectVal("Obj", 1, <<>>, TRUE, FALSE), ObjectVal("Obj", 2, <<>>, FALSE, FALSE),
      CoinVal("Coin<A>", 3, 2),
      AnyVal("bytes8", <<1>>), AnyVal("bytes32", <<7>>)>>

InitCall ==
    InitWith(CallInputs, 3, {"Normal"}, CallFunctions \cup {"absent"}, MaxCallCommands,
             {DefaultConfig}, {"same"}, {<<>>})

NextCall ==
    \/ MoveCallCommand
    \/ MoveCallArgument
    \/ MoveCallInvoke
    \/ MakeMoveVecCommand
    \/ SplitCoinsCommand
    \/ MergeCoinsCommand
    \/ TransferObjectsCommand
    \/ FinishCommand
    \/ Finish

SpecCall == InitCall /\ [][NextCall]_vars

\* Transactions of calls of a function that returns an object, an entry
\* function that takes it by mutable reference and private entry functions.
PrivacyInputs == <<ObjectVal("Obj", 1, <<>>, TRUE, FALSE)>>

InitPrivacy ==
    InitWith(PrivacyInputs, 1, {"Normal"}, {"make", "touch", "edit", "consume", "inspect"},
             MaxPrivacyCommands, {DefaultConfig}, {"same"}, {<<>>})

NextPrivacy ==
    \/ MoveCallCommand
    \/ MoveCallArgument
    \/ MoveCallInvoke
    \/ MakeMoveVecCommand
    \/ FinishCommand
    \/ Finish

SpecPrivacy == InitPrivacy /\ [][NextPrivacy]_vars

\* Transactions of calls that take objects by mutable reference and return
\* values, the functions being of every kind: two objects.
MarkInputs ==
    <<ObjectVal("Obj", 1, <<>>, TRUE, FALSE), ObjectVal("Obj", 2, <<>>, TRUE, FALSE)>>

InitMarks ==
    InitWith(MarkInputs, 2, {"Normal", "DevInspect"},
             {"make", "touch", "inspect", "edit", "tweak", "count"},
             MaxMarkCommands, {DefaultConfig}, {"same"}, {<<>>})

NextMarks ==
    \/ MoveCallCommand
    \/ MoveCallArgument
    \/ MoveCallInvoke
    \/ FinishCommand
    \/ Finish

SpecMarks == InitMarks /\ [][NextMarks]_vars

\* Transactions of calls of functions that take objects by mutable
\* reference and the transaction context, by reference or by mutable
\* reference, the VM giving back outputs of every shape.
InitOutputs ==
    InitWith(MarkInputs, 2, {"Normal"},
             {"touch", "edit", "inspect", "touch_ctx", "look_ctx", "edit_ctx"},
             MaxOutputCommands, {DefaultConfig}, {"same"}, {<<>>})

NextOutputs ==
    \/ MoveCallCommand
    \/ MoveCallArgument
    \/ MoveCallReturns
    \/ FinishCommand
    \/ Finish

SpecOutputs == InitOutputs /\ [][NextOutputs]_vars

\* Transactions of calls that are refused before their arguments are looked
\* at, and of calls that take their arguments: a function that does not
\* exist, a private one, an init, one that returns a reference, one of the
\* event module, and functions called with any number of arguments.
RejectedFunctions == {"absent", "hidden", "init", "peek", "emit", "touch", "take"}

InitRejected ==
    InitWith(MarkInputs, 2, {"Normal"}, RejectedFunctions, MaxVisibilityCommands,
             {Config(b, TRUE, NoValueSize) : b \in BOOLEAN}, {"same"}, {<<>>})

NextRejected ==
    \/ MoveCallCommand
    \/ MoveCallArgument
    \/ MoveCallInvoke
    \/ FinishCommand
    \/ Finish

SpecRejected == InitRejected /\ [][NextRejected]_vars

\* The linkage context of the commands.  context.linkage is <<>> when the
\* linkage is unset and <<id>> when it is that of the package id;
\* context.linkage_ops is what the handler of the current command did to
\* the linkage view and the steps between, each with the linkage after it.
LinkageOp(c, op) ==
    [c EXCEPT !.linkage_ops = Append(@, [op |-> op, linkage |-> c.linkage])]

set_linkage(c, package) == LinkageOp([c EXCEPT !.linkage = <<package>>], "set")

reset_linkage(c) == LinkageOp([c EXCEPT !.linkage = <<>>], "reset")

steal_linkage(c) == LinkageOp([c EXCEPT !.linkage = <<>>], "steal")

\* restore_linkage: the saved linkage is put back, which is an invariant
\* violation when a linkage is set
restore_linkage(c, saved) ==
    IF c.linkage # <<>> THEN Fail(LinkageOp(c, "restore_failed"), Error("InvariantViolation"))
    ELSE Ok(LinkageOp([c EXCEPT !.linkage = saved], "restore"), NoneVal)

RECURSIVE MakeValuesLinkage(_, _)
\* make_value of n objects: the type of each is loaded under the linkage of
\* its package, which is reset afterwards
MakeValuesLinkage(c, n) ==
    IF n = 0 THEN c
    ELSE MakeValuesLinkage(reset_linkage(set_linkage(c, 20)), n - 1)

\* (a variant of WriteBackLinkage that returns as soon as the write-back fails)
WriteBackLinkageReturnsEarly(c, saved, made, written) ==
    IF ~written
    THEN Fail(LinkageOp(MakeValuesLinkage(c, made), "write_back_failed"),
              Error("InvariantViolation"))
    ELSE restore_linkage(LinkageOp(MakeValuesLinkage(c, made), "write_back"), saved)

\* restore_linkage(saved_linkage)?; res
WrittenBack(restored, written) ==
    IF ~restored.ok \/ written THEN restored
    ELSE Fail(restored.ctx, Error("InvariantViolation"))

\* write_back_results between steal_linkage and restore_linkage
WriteBackLinkage(c, saved, made, written) ==
    WrittenBack(restore_linkage(
                   LinkageOp(MakeValuesLinkage(c, made),
                             IF written THEN "write_back" ELSE "write_back_failed"),
                   saved),
                written)

\* The outcomes of execute_move_call: it fails before the VM returns (the
\* checks, the arguments, the VM, the outputs), or the VM returns, made
\* values are built and the write-back succeeds or fails.
CallOutcomes ==
    {[returns |-> r, made |-> m, written |-> w] :
        r \in BOOLEAN, m \in 0..1, w \in BOOLEAN}

execute_move_call_linkage(c, outcome) ==
    IF ~outcome.returns THEN Fail(LinkageOp(c, "call_failed"), Error("MoveAbort"))
    ELSE WriteBackLinkage(steal_linkage(LinkageOp(c, "call")), c.linkage,
                          outcome.made, outcome.written)

LinkageResult(r) == [ok |-> r.ok, ctx |-> reset_linkage(r.ctx), results |-> <<>>, err |-> r.err]

\* Command::MoveCall: set_link_context, execute_move_call, reset_linkage
MoveCallLinkage(c, package, outcome) ==
    IF package \notin {p.id : p \in StoredPackages}
    THEN CmdFail(c, Error("InvalidLinkage"))
    ELSE LinkageResult(execute_move_call_linkage(set_linkage(c, package), outcome))

RECURSIVE InitModulesLinkage(_, _)
InitModuleLinkage(r, outcomes) ==
    IF ~r.ok THEN r ELSE InitModulesLinkage(r.ctx, outcomes)

\* init_modules: one call for each initializer, until one fails
InitModulesLinkage(c, outcomes) ==
    IF outcomes = <<>> THEN Ok(c, NoneVal)
    ELSE InitModuleLinkage(execute_move_call_linkage(c, Head(outcomes)), Tail(outcomes))

\* execute_move_publish: the package is made, its linkage is set, the
\* modules are verified and initialized, the linkage is reset
PublishLinkage(c, made, verified, outcomes) ==
    IF ~made THEN CmdFail(c, Error("PublishErrorNonZeroAddress"))
    ELSE IF ~verified
    THEN LinkageResult(Fail(LinkageOp(set_linkage(c, c.ids_created + 1), "verify_failed"),
                            Error("VMVerificationOrDeserializationError")))
    ELSE LinkageResult(InitModulesLinkage(
                          LinkageOp(set_linkage(c, c.ids_created + 1), "verify"), outcomes))

UpgradeLinkageChecked(r, compatible) ==
    IF ~r.ok \/ compatible THEN r
    ELSE CmdFail(r.ctx, Error("PackageUpgradeError"))

\* execute_move_upgrade: the package is made, its linkage is set, the modules
\* are verified, the linkage is reset, then the compatibility is checked
UpgradeLinkage(c, made, verified, compatible) ==
    IF ~made THEN CmdFail(c, Error("PackageUpgradeError"))
    ELSE UpgradeLinkageChecked(
            LinkageResult(IF verified
                          THEN Ok(LinkageOp(set_linkage(c, c.ids_created + 1), "verify"),
                                  NoneVal)
                          ELSE Fail(LinkageOp(set_linkage(c, c.ids_created + 1),
                                              "verify_failed"),
                                    Error("VMVerificationOrDeserializationError"))),
            compatible)

Started(c) == [c EXCEPT !.linkage_ops = <<>>]

MoveCallLinkageCommand ==
    /\ pc = "idle" /\ idx < env.commands
    /\ \E package \in {10, 30, 99}, outcome \in CallOutcomes :
          Run([Command("MoveCall", NoArg, <<>>) EXCEPT !.package_id = package],
              MoveCallLinkage(Started(context), package, outcome))

PublishLinkageCommand ==
    /\ pc = "idle" /\ idx < env.commands
    /\ \E made \in BOOLEAN, verified \in BOOLEAN,
          outcomes \in UNION {[1..n -> CallOutcomes] : n \in 0..MaxInitializers} :
          Run(Command("Publish", NoArg, <<>>),
              PublishLinkage(Started(context), made, verified, outcomes))

UpgradeLinkageCommand ==
    /\ pc = "idle" /\ idx < env.commands
    /\ \E made \in BOOLEAN, verified \in BOOLEAN, compatible \in BOOLEAN :
          Run(Command("Upgrade", NoArg, <<>>),
              UpgradeLinkage(Started(context), made, verified, compatible))

InitLinkage ==
    InitWith(<<>>, 0, {"Normal"}, {}, MaxLinkageCommands, {DefaultConfig}, {"same"}, {<<>>})

NextLinkage ==
    \/ MoveCallLinkageCommand
    \/ PublishLinkageCommand
    \/ UpgradeLinkageCommand
    \/ FinishCommand
    \/ Finish

SpecLinkage == InitLinkage /\ [][NextLinkage]_vars

\* Package transactions: an upgrade capability of the stored package and
\* an address; a function that gives upgrade tickets.
PackageInputs ==
    <<ObjectVal("UpgradeCap", 1, <<10>>, TRUE, FALSE), AnyVal("bytes32", <<7>>)>>

InitPackage ==
    InitWith(PackageInputs, 1, {"Normal"}, {"authorize"}, MaxPackageCommands,
             {Config(TRUE, d, NoValueSize) : d \in BOOLEAN},
             ModuleBytes, DepLists)

NextPackage ==
    \/ MoveCallCommand
    \/ MoveCallArgument
    \/ MoveCallInvoke
    \/ PublishCommand
    \/ UpgradeCommand
    \/ FinishCommand
    \/ Finish

SpecPackage == InitPackage /\ [][NextPackage]_vars

\* Transactions of calls of functions of every visibility, of initializers,
\* of framework functions and of functions that take the transaction
\* context, and of Publish commands, in the normal mode and in the mode that
\* allows arbitrary function calls.
VisibilityInputs ==
    <<ObjectVal("Obj", 1, <<>>, TRUE, FALSE), AnyVal("bytes32", <<7>>)>>

VisibilityFunctions ==
    {"make", "touch", "consume", "inspect", "hidden", "internal", "absent"}
        \cup InitFunctions \cup FrameworkFunctions \cup ContextFunctions

InitVisibility ==
    InitWith(VisibilityInputs, 1, {"Normal", "DevInspect"}, VisibilityFunctions,
             MaxVisibilityCommands,
             {Config(b, TRUE, NoValueSize) : b \in BOOLEAN},
             {"more", "extra", "witness_only"}, {<<>>})

NextVisibility ==
    \/ MoveCallCommand
    \/ MoveCallArgument
    \/ MoveCallInvoke
    \/ PublishCommand
    \/ FinishCommand
    \/ Finish

SpecVisibility == InitVisibility /\ [][NextVisibility]_vars

\* Transactions that give objects, pure bytes, a receiving argument and the
\* results of earlier commands to functions that take objects, numbers,
\* addresses, options, a signer and a receiving argument, to MakeMoveVec and
\* to Upgrade, in the normal mode and in the mode that allows arbitrary
\* values; some of the functions return references.
TypeInputs ==
    <<ObjectVal("Obj", 1, <<>>, TRUE, FALSE), AnyVal("bytes8", <<1>>),
      ReceivingVal("", 2)>>

TypeFunctions ==
    {"make", "touch", "consume"} \cup PureFunctions \cup ReferenceFunctions

InitTypes ==
    InitWith(TypeInputs, Len(TypeInputs), {"Normal", "DevInspect"}, TypeFunctions,
             MaxTypeCommands, {DefaultConfig}, {"same"}, {<<>>})

NextTypes ==
    \/ MoveCallCommand
    \/ MoveCallArgument
    \/ MoveCallInvoke
    \/ MakeMoveVecCommand
    \/ UpgradeCommand
    \/ FinishCommand
    \/ Finish

SpecTypes == InitTypes /\ [][NextTypes]_vars

\* Transactions that publish a bundle of modules: bundles of one to three
\* modules with and without an initializer, with initializers that succeed,
\* abort or do not have the arity of an initializer, and a bundle with a
\* module that the verifier rejects.
InitBundles ==
    {"same", "more", "extra", "witness_only", "ordered", "failing", "witness_first",
     "half_verified"}

InitInit ==
    InitWith(<<AnyVal("bytes32", <<7>>)>>, 0, {"Normal", "Genesis"}, {}, MaxInitCommands,
             {DefaultConfig}, InitBundles, {<<>>})

NextInit ==
    \/ PublishCommand
    \/ TransferObjectsCommand
    \/ FinishCommand
    \/ Finish

SpecInit == InitInit /\ [][NextInit]_vars

\* Transactions of every command with a native effect: two coins of one
\* type and an object are split, merged, transferred, consumed by a call,
\* and a package is published.
EffectInputs ==
    <<CoinVal("Coin<A>", 1, 2), CoinVal("Coin<A>", 2, 1),
      ObjectVal("Obj", 3, <<>>, TRUE, FALSE),
      AnyVal("bytes8", <<1>>), AnyVal("bytes32", <<7>>)>>

InitEffects ==
    InitWith(EffectInputs, 3, {"Normal"}, {"make", "consume"}, MaxEffectCommands,
             {DefaultConfig}, {"same"}, {<<>>})

NextEffects ==
    \/ MoveCallCommand
    \/ MoveCallArgument
    \/ MoveCallInvoke
    \/ SplitCoinsCommand
    \/ MergeCoinsCommand
    \/ TransferObjectsCommand
    \/ PublishCommand
    \/ FinishCommand
    \/ Finish

SpecEffects == InitEffects /\ [][NextEffects]_vars

\* Transactions under a budget for the size of a value: an object, an
\* upgrade capability and pure bytes are given to MakeMoveVec, to Upgrade
\* (with a ticket that a call returns) and to functions that take an object
\* and a number, in both modes, with and without the budget and with both
\* values of the switch of the second version of the bound.
SizeInputs ==
    <<ObjectVal("Obj", 1, <<>>, TRUE, FALSE),
      ObjectVal("UpgradeCap", 2, <<10>>, TRUE, FALSE), AnyVal("bytes8", <<1>>)>>

SizeLimits ==
    {[max_ptb_value_size |-> size, max_ptb_value_size_v2 |-> v2,
      max_move_value_depth |-> 4] : size \in {<<>>, <<16>>}, v2 \in BOOLEAN}

InitSize ==
    InitWith(SizeInputs, Len(SizeInputs), {"Normal", "DevInspect"},
             {"consume", "authorize", "pay"}, MaxSizeCommands,
             {Config(TRUE, TRUE, limits) : limits \in SizeLimits}, {"same"}, {<<>>})

NextSize ==
    \/ MoveCallCommand
    \/ MoveCallArgument
    \/ MoveCallInvoke
    \/ MakeMoveVecCommand
    \/ UpgradeCommand
    \/ FinishCommand
    \/ Finish

SpecSize == InitSize /\ [][NextSize]_vars

\* Type inputs.  A TypeInput is a primitive, a vector of a type input or a
\* struct descriptor: an address, a module name, a type name and type
\* parameters.  The names are strings that the sender chose.
PrimitiveInput(tag) == [tag |-> tag]

VectorInput(t) == [tag |-> "Vector", inner |-> t]

StructInput(address, module, name, type_params) ==
    [tag |-> "Struct", address |-> address, module |-> module, name |-> name,
     type_params |-> type_params]

\* Identifier::new refuses the strings that are not identifiers
IsIdentifier(s) == s \notin {"1bad", "9x"}

\* pkg.type_origin_map(): every module of the stored packages declares the
\* type T, the module m declares Coin too
type_origin_map(package) ==
    {<<package.modules[n].name, "T">> : n \in 1..Len(package.modules)}
       \cup {<<package.modules[n].name, "Coin">> :
                n \in {k \in 1..Len(package.modules) : package.modules[k].name = "m"}}

\* context.linkage_view.get_package(&addr.into()).ok().flatten(): the
\* packages with this id, none when it is unknown
get_package(sv, addr) == {p \in sv.packages : p.id = addr}

type_argument_error(kind, argument_idx) ==
    [kind |-> kind, arg |-> argument_idx, cmd |-> -1]

TagOk(tag) == [ok |-> TRUE, tag |-> tag, err |-> NoErr]

TagFail(e) == [ok |-> FALSE, tag |-> PrimitiveInput("None"), err |-> e]

\* (a variant of resolve_datatype_names that checks the origin table whatever
\* the protocol configuration)
resolve_datatype_names_strict(sv, protocol_config, addr, module, name, arg_idx) ==
    IF protocol_config.validate_identifier_inputs
       /\ (~IsIdentifier(module) \/ ~IsIdentifier(name))
    THEN TagFail(Error("VMInvariantViolation"))
    ELSE IF \A pkg \in get_package(sv, addr) : <<module, name>> \notin type_origin_map(pkg)
    THEN TagFail(type_argument_error("TypeNotFound", arg_idx))
    ELSE TagOk(<<module, name>>)

resolve_datatype_names(sv, protocol_config, addr, module, name, arg_idx) ==
    IF protocol_config.validate_identifier_inputs
       /\ (~IsIdentifier(module) \/ ~IsIdentifier(name))
    THEN TagFail(Error("VMInvariantViolation"))
    ELSE IF /\ protocol_config.better_adapter_type_resolution_errors
            /\ \A pkg \in get_package(sv, addr) :
                  <<module, name>> \notin type_origin_map(pkg)
    THEN TagFail(type_argument_error("TypeNotFound", arg_idx))
    ELSE TagOk(<<module, name>>)

\* the struct tag of a descriptor whose type parameters are converted
StructTag(sv, protocol_config, s, type_params, arg_idx) ==
    IF ~type_params.ok THEN type_params
    ELSE LET names == resolve_datatype_names(sv, protocol_config, s.address,
                                             s.module, s.name, arg_idx)
         IN IF ~names.ok THEN names
            ELSE TagOk(StructInput(s.address, names.tag[1], names.tag[2],
                                   type_params.tag))

\* the tag of a vector whose element type is converted
VectorTag(inner) == IF ~inner.ok THEN inner ELSE TagOk(VectorInput(inner.tag))

\* one more converted type parameter
TagAppend(done, next) ==
    IF ~done.ok THEN done
    ELSE IF ~next.ok THEN next
    ELSE TagOk(Append(done.tag, next.tag))

RECURSIVE to_type_tag_(_, _, _, _)
RECURSIVE TypeParamTags(_, _, _, _)
\* type_params.into_iter().map(|t| to_type_tag_(context, t, idx)).collect()
TypeParamTags(sv, protocol_config, type_params, arg_idx) ==
    IF type_params = <<>> THEN TagOk(<<>>)
    ELSE IF ~to_type_tag_(sv, protocol_config, Head(type_params), arg_idx).ok
    THEN to_type_tag_(sv, protocol_config, Head(type_params), arg_idx)
    ELSE TagAppend(TagOk(<<to_type_tag_(sv, protocol_config, Head(type_params),
                                        arg_idx).tag>>),
                   TypeParamTags(sv, protocol_config, Tail(type_params), arg_idx))

to_type_tag_(sv, protocol_config, type_input, arg_idx) ==
    CASE type_input.tag = "Vector" ->
            VectorTag(to_type_tag_(sv, protocol_config, type_input.inner, arg_idx))
      [] type_input.tag = "Struct" ->
            StructTag(sv, protocol_config, type_input,
                      TypeParamTags(sv, protocol_config, type_input.type_params, arg_idx),
                      arg_idx)
      [] OTHER -> TagOk(type_input)

\* Conversions of type inputs: the two switches of the protocol
\* configuration, a type input and the index of the type argument.
StructInputs ==
    {StructInput(address, module, name, <<>>) :
        address \in {10, 20, 99}, module \in {"m", "n", "1bad"},
        name \in {"T", "Coin", "9x"}}

TypeInputSet ==
    {PrimitiveInput("U64"), PrimitiveInput("Address")}
       \cup StructInputs
       \cup {VectorInput(s) : s \in StructInputs}
       \cup {StructInput(10, "m", "T", <<p>>) : p \in StructInputs}
       \cup {StructInput(99, "m", "T", <<p, PrimitiveInput("U64")>>) : p \in StructInputs}
       \cup {StructInput(10, "m", "9x", <<PrimitiveInput("Bool"), p>>) : p \in StructInputs}

ResolutionSwitches ==
    [validate_identifier_inputs : BOOLEAN,
     better_adapter_type_resolution_errors : BOOLEAN]

InitResolve ==
    InitWith(<<>>, 0, {"Normal"}, {}, 1, ResolutionSwitches, {"same"}, {<<>>})

ToTypeTagCall ==
    /\ pc = "idle"
    /\ \E type_input \in TypeInputSet, arg_idx \in 0..(MaxTypeArguments - 1) :
          LET r == to_type_tag_(state_view, env.protocol_config, type_input, arg_idx)
          IN /\ cur' = [NoCommand EXCEPT
                           !.kind = "to_type_tag_", !.values = <<type_input>>,
                           !.next = arg_idx,
                           !.results = IF r.ok THEN <<r.tag>> ELSE <<>>]
             /\ err' = r.err
             /\ pc' = IF r.ok THEN "done" ELSE "failed"
    /\ UNCHANGED <<env, context, idx, timings, state_view, history>>

NextResolve == ToTypeTagCall

SpecResolve == InitResolve /\ [][NextResolve]_vars

\* The wire format.  A layout is the sequence of its constructors, outermost
\* first.  A value of a layout is a boolean, a natural number (its digits
\* in base 256, the least significant first, the last one not 0), the 32
\* bytes of an address, the code points of a string, the sequence of the
\* elements of a vector, or <<>> and <<v>> for an option.
RECURSIVE uleb128(_)
\* the length prefix of a sequence
uleb128(n) == IF n < 128 THEN <<n>> ELSE <<128 + (n % 128)>> \o uleb128(n \div 128)

\* the n bytes of a number, the least significant first
LittleEndian(v, n) == v \o [i \in 1..(n - Len(v)) |-> 0]

RECURSIVE FromLittleEndian(_)
\* the number of little-endian bytes
FromLittleEndian(bytes) ==
    IF bytes = <<>> \/ bytes[Len(bytes)] # 0 THEN bytes
    ELSE FromLittleEndian(SubSeq(bytes, 1, Len(bytes) - 1))

IntegerWidth ==
    [l \in {"U8", "U16", "U32", "U64", "U128", "U256"} |->
        CASE l = "U8" -> 1 [] l = "U16" -> 2 [] l = "U32" -> 4
          [] l = "U64" -> 8 [] l = "U128" -> 16 [] OTHER -> 32]

\* the UTF-8 bytes of a code point
Utf8Char(cp) ==
    IF cp < 128 THEN <<cp>>
    ELSE IF cp < 2048 THEN <<192 + (cp \div 64), 128 + (cp % 64)>>
    ELSE IF cp < 65536
    THEN <<224 + (cp \div 4096), 128 + ((cp \div 64) % 64), 128 + (cp % 64)>>
    ELSE <<240 + (cp \div 262144), 128 + ((cp \div 4096) % 64),
           128 + ((cp \div 64) % 64), 128 + (cp % 64)>>

RECURSIVE Utf8(_)
Utf8(s) == IF s = <<>> THEN <<>> ELSE Utf8Char(Head(s)) \o Utf8(Tail(s))

RECURSIVE to_bytes(_, _)
RECURSIVE ElementBytes(_, _)
\* the bytes of the elements one after the other, half by half
ElementBytes(layout, vs) ==
    IF vs = <<>> THEN <<>>
    ELSE IF Len(vs) = 1 THEN to_bytes(layout, vs[1])
    ELSE ElementBytes(layout, SubSeq(vs, 1, Len(vs) \div 2))
            \o ElementBytes(layout, SubSeq(vs, (Len(vs) \div 2) + 1, Len(vs)))

\* bcs::to_bytes of a value of the Move type of the layout
to_bytes(layout, v) ==
    CASE Head(layout) = "Bool" -> <<IF v THEN 1 ELSE 0>>
      [] Head(layout) \in DOMAIN IntegerWidth ->
            LittleEndian(v, IntegerWidth[Head(layout)])
      [] Head(layout) = "Address" -> v
      [] Head(layout) \in {"Ascii", "UTF8"} -> uleb128(Len(Utf8(v))) \o Utf8(v)
      [] OTHER -> uleb128(Len(v)) \o ElementBytes(Tail(layout), v)

\* What a deserializer has read: whether it succeeded, the value it handed
\* to the visitor and the bytes that follow.
DeOk(val, rest) == [ok |-> TRUE, val |-> val, rest |-> rest]

DeFail == [ok |-> FALSE, val |-> <<>>, rest |-> <<>>]

Drop(bytes, n) == SubSeq(bytes, n + 1, Len(bytes))

Take(bytes, n) == SubSeq(bytes, 1, n)

\* parse_bool: one byte, 0 or 1
parse_bool(bytes) ==
    IF bytes = <<>> \/ Head(bytes) \notin {0, 1} THEN DeFail
    ELSE DeOk(Head(bytes) = 1, Tail(bytes))

parse_fixed(bytes, n) ==
    IF Len(bytes) < n THEN DeFail
    ELSE DeOk(FromLittleEndian(Take(bytes, n)), Drop(bytes, n))

parse_array(bytes, n) ==
    IF Len(bytes) < n THEN DeFail ELSE DeOk(Take(bytes, n), Drop(bytes, n))

RECURSIVE parse_u32_from_uleb128(_, _, _)
\* the length prefix: seven bits a byte, least significant first, at most
\* five bytes, no trailing zero digit, a length below 2^31
parse_u32_from_uleb128(bytes, shift, value) ==
    IF bytes = <<>> \/ shift > 28 THEN DeFail
    ELSE IF shift = 28 /\ Head(bytes) >= 8 THEN DeFail
    ELSE IF Head(bytes) < 128
    THEN IF shift > 0 /\ Head(bytes) = 0 THEN DeFail
         ELSE DeOk(value + Head(bytes) * 2^shift, Tail(bytes))
    ELSE parse_u32_from_uleb128(Tail(bytes), shift + 7,
                                value + (Head(bytes) - 128) * 2^shift)

IsContinuation(b) == b >= 128 /\ b < 192

\* the number of bytes of the character that starts with this byte, 0 when
\* no character does
Utf8Width(b) ==
    IF b < 128 THEN 1
    ELSE IF b >= 194 /\ b < 224 THEN 2
    ELSE IF b >= 224 /\ b < 240 THEN 3
    ELSE IF b >= 240 /\ b < 245 THEN 4
    ELSE 0

Utf8CodePoint(bs) ==
    CASE Len(bs) = 1 -> bs[1]
      [] Len(bs) = 2 -> (bs[1] - 192) * 64 + (bs[2] - 128)
      [] Len(bs) = 3 -> (bs[1] - 224) * 4096 + (bs[2] - 128) * 64 + (bs[3] - 128)
      [] OTHER -> (bs[1] - 240) * 262144 + (bs[2] - 128) * 4096
                     + (bs[3] - 128) * 64 + (bs[4] - 128)

\* a character of std::str::from_utf8: continuation bytes follow, the
\* encoding is the shortest one, the code point is a scalar value
IsUtf8Char(bs) ==
    /\ \A n \in 2..Len(bs) : IsContinuation(bs[n])
    /\ Len(bs) = 3 => Utf8CodePoint(bs) >= 2048
                        /\ ~(Utf8CodePoint(bs) >= 55296 /\ Utf8CodePoint(bs) < 57344)
    /\ Len(bs) = 4 => Utf8CodePoint(bs) >= 65536 /\ Utf8CodePoint(bs) < 1114112

RECURSIVE from_utf8(_, _)
from_utf8(bytes, acc) ==
    IF bytes = <<>> THEN DeOk(acc, <<>>)
    ELSE IF Utf8Width(Head(bytes)) = 0 \/ Utf8Width(Head(bytes)) > Len(bytes)
    THEN DeFail
    ELSE IF ~IsUtf8Char(Take(bytes, Utf8Width(Head(bytes)))) THEN DeFail
    ELSE from_utf8(Drop(bytes, Utf8Width(Head(bytes))),
                   Append(acc, Utf8CodePoint(Take(bytes, Utf8Width(Head(bytes))))))

StringOf(len, decoded) ==
    IF ~decoded.ok THEN DeFail ELSE DeOk(decoded.val, len.rest)

\* parse_string: the length, that many bytes, which are UTF-8
parse_string(len) ==
    IF ~len.ok \/ len.val > Len(len.rest) THEN DeFail
    ELSE StringOf([len EXCEPT !.rest = Drop(len.rest, len.val)],
                  from_utf8(Take(len.rest, len.val), <<>>))

is_ascii(s) == \A n \in 1..Len(s) : s[n] < 128

\* PrimitiveArgumentLayout::Ascii: a str that is_ascii
AsciiChecked(s) == IF s.ok /\ ~is_ascii(s.val) THEN DeFail ELSE s

\* visit_some
SomeOf(element) == IF ~element.ok THEN DeFail ELSE DeOk(<<element.val>>, element.rest)

\* the elements read so far and the ones that follow
ElementsWith(first, others) ==
    IF ~others.ok THEN DeFail ELSE DeOk(first.val \o others.val, others.rest)

RECURSIVE deserialize(_, _)
RECURSIVE visit_seq(_, _, _)
RECURSIVE NextElement(_, _, _)
NextElement(layout, first, n) ==
    IF ~first.ok THEN DeFail
    ELSE ElementsWith(first, visit_seq(layout, first.rest, n))

\* while seq.next_element_seed(self.0)?.is_some() {}: the n elements in
\* order, the first half of them and then the others
visit_seq(layout, bytes, n) ==
    IF n = 0 THEN DeOk(<<>>, bytes)
    ELSE IF n = 1 THEN SomeOf(deserialize(layout, bytes))
    ELSE NextElement(layout, visit_seq(layout, bytes, n \div 2), n - (n \div 2))

\* deserialize_seq: the length and that many elements
deserialize_seq(layout, len) ==
    IF ~len.ok THEN DeFail ELSE visit_seq(layout, len.rest, len.val)

\* (a variant of deserialize_option whose visit_some does not read the value)
deserialize_option_unread(layout, tag) ==
    IF ~tag.ok THEN DeFail ELSE DeOk(<<>>, tag.rest)

\* deserialize_option: the tag 0 is visit_none, the tag 1 visit_some
deserialize_option(layout, tag) ==
    IF ~tag.ok THEN DeFail
    ELSE IF ~tag.val THEN DeOk(<<>>, tag.rest)
    ELSE SomeOf(deserialize(layout, tag.rest))

\* DeserializeSeed for &PrimitiveArgumentLayout
deserialize(layout, bytes) ==
    CASE Head(layout) = "Ascii" ->
            AsciiChecked(parse_string(parse_u32_from_uleb128(bytes, 0, 0)))
      [] Head(layout) = "UTF8" ->
            parse_string(parse_u32_from_uleb128(bytes, 0, 0))
      [] Head(layout) = "Option" ->
            deserialize_option(Tail(layout), parse_bool(bytes))
      [] Head(layout) = "Vector" ->
            deserialize_seq(Tail(layout), parse_u32_from_uleb128(bytes, 0, 0))
      [] Head(layout) = "Bool" -> parse_bool(bytes)
      [] Head(layout) = "Address" -> parse_array(bytes, 32)
      [] OTHER -> parse_fixed(bytes, IntegerWidth[Head(layout)])

\* Deserializer::end: input that remains is an error
End(r) == IF r.ok /\ r.rest # <<>> THEN DeFail ELSE r

\* bcs::from_bytes_seed(&layout, bytes)
from_bytes_seed(layout, bytes) == End(deserialize(layout, bytes))

\* bcs_argument_validate on the bytes themselves: the value read is dropped
bcs_argument_validate_bytes(bytes, arg_idx, layout) ==
    IF from_bytes_seed(layout, bytes).ok THEN NoErr
    ELSE command_argument_error("InvalidBCSBytes", arg_idx)

\* Round trips: a layout, a value of the layout, its bytes and what the
\* validation of the bytes against the layout reads.
BaseLayouts ==
    {<<"Bool">>, <<"U8">>, <<"U16">>, <<"U32">>, <<"U64">>, <<"U128">>,
     <<"U256">>, <<"Address">>, <<"Ascii">>, <<"UTF8">>}

LayoutSet ==
    BaseLayouts
       \cup {<<"Vector">> \o l : l \in BaseLayouts}
       \cup {<<"Option">> \o l : l \in BaseLayouts}
       \cup {<<"Vector", "Vector", "U8">>, <<"Vector", "Option", "U64">>,
             <<"Option", "Vector", "U8">>, <<"Option", "Option", "Bool">>,
             <<"Vector", "Option", "UTF8">>}

SeqsUpTo(S, n) == UNION {[1..k -> S] : k \in 0..n}

RECURSIVE ValuesOf(_, _)
\* values of a layout, the vectors of at most n elements, and one vector of
\* bytes whose length takes two bytes
ValuesOf(layout, n) ==
    CASE Head(layout) = "Bool" -> BOOLEAN
      [] Head(layout) = "U8" -> {<<>>, <<128>>, <<255>>}
      [] Head(layout) = "U16" -> {<<>>, <<0, 1>>, <<255, 255>>}
      [] Head(layout) \in {"U32", "U64", "U128", "U256"} ->
            {<<>>, <<0, 0, 1>>, [i \in 1..IntegerWidth[Head(layout)] |-> 255]}
      [] Head(layout) = "Address" ->
            {[i \in 1..32 |-> 0], [i \in 1..32 |-> i], [i \in 1..32 |-> 255]}
      [] Head(layout) = "Ascii" -> {<<>>, <<104, 105>>, <<127>>}
      [] Head(layout) = "UTF8" ->
            {<<>>, <<104, 105>>, <<233>>, <<8364, 65>>, <<55295, 57344>>,
             <<128512>>, <<1114111>>}
      [] Head(layout) = "Option" ->
            {<<>>} \cup {<<v>> : v \in ValuesOf(Tail(layout), n)}
      [] OTHER ->
            SeqsUpTo(ValuesOf(Tail(layout), n - 1), n)
               \cup (IF layout = <<"Vector", "U8">> /\ n = MaxElements
                     THEN {[i \in 1..130 |-> <<7>>]} ELSE {})

InitCodec ==
    InitWith(<<>>, 0, {"Normal"}, {}, 1, {DefaultConfig}, {"same"}, {<<>>})

\* cur.args is the layout, cur.values the value, cur.dep_ids its bytes and
\* cur.results what the deserializer read
ValidateEncodedCall ==
    /\ pc = "idle"
    /\ \E layout \in LayoutSet, arg_idx \in 0..1 :
         \E v \in ValuesOf(layout, MaxElements) :
            /\ cur' = [NoCommand EXCEPT
                          !.kind = "bcs_argument_validate", !.args = layout,
                          !.values = <<v>>, !.next = arg_idx,
                          !.dep_ids = to_bytes(layout, v),
                          !.results =
                             IF from_bytes_seed(layout, to_bytes(layout, v)).ok
                             THEN <<from_bytes_seed(layout, to_bytes(layout, v)).val>>
                             ELSE <<>>]
            /\ err' = bcs_argument_validate_bytes(to_bytes(layout, v), arg_idx, layout)
            /\ pc' = IF err'.kind = NoErr.kind THEN "done" ELSE "failed"
    /\ UNCHANGED <<env, context, idx, timings, state_view, history>>

\* other bytes: the encoding of a value without its last byte, followed by
\* one more byte, or with another first byte
ValidateBytesCall ==
    /\ pc = "idle"
    /\ \E layout \in LayoutSet, extra \in {0, 1, 2, 128, 255} :
         \E v \in ValuesOf(layout, 1) :
            \E bytes \in {Take(to_bytes(layout, v), Len(to_bytes(layout, v)) - 1),
                          Append(to_bytes(layout, v), extra),
                          <<extra>> \o Tail(to_bytes(layout, v))} :
               /\ cur' = [NoCommand EXCEPT
                             !.kind = "bcs_argument_validate", !.args = layout,
                             !.function = "bytes", !.dep_ids = bytes,
                             !.results = IF from_bytes_seed(layout, bytes).ok
                                         THEN <<from_bytes_seed(layout, bytes).val>>
                                         ELSE <<>>]
               /\ err' = bcs_argument_validate_bytes(bytes, 0, layout)
               /\ pc' = IF err'.kind = NoErr.kind THEN "done" ELSE "failed"
    /\ UNCHANGED <<env, context, idx, timings, state_view, history>>

NextCodec == ValidateEncodedCall \/ ValidateBytesCall

SpecCodec == InitCodec /\ [][NextCodec]_vars

\* Calls of amplification_bound_ and amplification_bound: a mode, a
\* protocol configuration (no budget or a budget up to MaxValueSize, a value
\* depth up to MaxValueDepth, the switch of the second version of the
\* bound) and a type.
ValueSizes ==
    {[max_ptb_value_size |-> size, max_ptb_value_size_v2 |-> v2,
      max_move_value_depth |-> depth] :
        size \in {<<>>} \cup {<<b>> : b \in 0..MaxValueSize},
        v2 \in BOOLEAN, depth \in 1..MaxValueDepth}

InitBound ==
    InitWith(<<>>, 0, {"Normal", "Genesis"}, {}, 1,
             {Config(TRUE, TRUE, limits) : limits \in ValueSizes}, {"same"}, {<<>>})

AmplificationBoundCall ==
    /\ pc = "idle"
    /\ \E param_ty \in Types :
          cur' = [NoCommand EXCEPT
                     !.kind = "amplification_bound",
                     !.function = param_ty,
                     !.results = amplification_bound(env.mode, env.protocol_config,
                                                     param_ty)]
    /\ pc' = "done"
    /\ UNCHANGED <<env, context, idx, err, timings, state_view, history>>

AmplificationBoundInnerCall ==
    /\ pc = "idle"
    /\ \E param_ty \in Types :
          cur' = [NoCommand EXCEPT
                     !.kind = "amplification_bound_",
                     !.function = param_ty,
                     !.results = amplification_bound_(env.mode, env.protocol_config,
                                                      param_ty)]
    /\ pc' = "done"
    /\ UNCHANGED <<env, context, idx, err, timings, state_view, history>>

NextBound ==
    \/ AmplificationBoundCall
    \/ AmplificationBoundInnerCall

SpecBound == InitBound /\ [][NextBound]_vars

\* Calls of check_compatibility: a stored package, the modules that the
\* module bytes deserialize to, a policy.
InitCompat ==
    InitWith(PackageInputs, 1, {"Normal"}, {}, 1,
             {Config(TRUE, d, NoValueSize) : d \in BOOLEAN},
             {b \in ModuleBytes : deserialize_modules(b).ok}, {<<>>})

CheckCompatibilityCall ==
    /\ pc = "idle"
    /\ \E existing_package \in state_view.packages,
          policy \in UpgradePolicies \cup {"Unknown"} :
          /\ cur' = [NoCommand EXCEPT !.kind = "check_compatibility",
                                      !.modules = env.module_bytes,
                                      !.package_id = existing_package.id,
                                      !.function = policy]
          /\ err' = check_compatibility(env.protocol_config, existing_package,
                                        deserialize_modules(env.module_bytes).modules,
                                        policy)
    /\ pc' = "done"
    /\ UNCHANGED <<env, context, idx, timings, state_view, history>>

NextCompat == CheckCompatibilityCall

SpecCompat == InitCompat /\ [][NextCompat]_vars

(***************************************************************************)
(* Properties.                                                             *)
(***************************************************************************)
RECURSIVE SumSeq(_)
SumSeq(q) == IF q = <<>> THEN 0 ELSE Head(q) + SumSeq(Tail(q))

RECURSIVE SumBalances(_, _)
SumBalances(c, slots) ==
    IF slots = {} THEN 0
    ELSE LET a == CHOOSE x \in slots : TRUE
         IN Balance(SlotVal(c, a)) + SumBalances(c, slots \ {a})

\* the total balance of the coins of a type that are in the argument slots
TotalBalance(c, ty) ==
    SumBalances(c, {a \in ValidArgs(c) : IsCoin(SlotVal(c, a)) /\ SlotVal(c, a).ty = ty})

\* the values the arguments of the command started by this step held
ArgVals(c, cmd) == [n \in 1..Len(cmd.args) |-> SlotVal(c, cmd.args[n])]

\* a step that runs the body of a command of this kind
BodyStep(kind) == pc = "idle" /\ pc' \in {"finish", "failed"} /\ cur'.kind = kind

C2_NonEntryReturnRejected ==
    [][(/\ pc = "args" /\ cur.next < Len(cur.args)
        /\ cur.function_kind \in {"PrivateEntry", "Init"}
        /\ SlotVal(context, cur.args[cur.next + 1]).kind = "Object"
        /\ SlotVal(context, cur.args[cur.next + 1]).id \in history.non_entry_returns)
       => (/\ pc' = "failed"
           /\ err'.kind = "InvalidArgumentToPrivateEntryFunction"
           /\ err'.arg = cur.next)]_vars

\* a private entry function has accepted an object that a non-entry call
\* returned
C2_Witness ==
    /\ pc = "args" /\ cur.function_kind = "PrivateEntry" /\ cur.next = 1
    /\ cur.values[1].kind = "Object"
    /\ cur.values[1].id \in history.non_entry_returns

\* the references to slot a that the Move call in flight holds
MutHandles(a) ==
    {n \in 1..Len(cur.by_mut_ref) : cur.args[cur.by_mut_ref[n].i + 1] = a}

SharedHandles(a) ==
    {n \in 1..Len(cur.by_ref) : cur.args[cur.by_ref[n] + 1] = a}

\* C3: a slot has no handle, one exclusive handle or shared handles only;
\* a mutable borrow of a borrowed or moved slot fails, and so does a shared
\* borrow of a mutably borrowed or moved slot.
C3_BorrowDiscipline ==
    /\ [](pc = "args" =>
            \A a \in ValidArgs(context) :
                /\ Cardinality(MutHandles(a)) <= 1
                /\ MutHandles(a) # {} => SharedHandles(a) = {}
                /\ MutHandles(a) # {} => arg_is_mut_borrowed(context, a)
                /\ SharedHandles(a) # {} => arg_is_borrowed(context, a))
    /\ [][(pc = "args" /\ cur.next < Len(cur.args)) =>
            LET a == cur.args[cur.next + 1]
                param == Functions[cur.function].parameters[cur.next + 1]
                refused == /\ pc' = "failed"
                           /\ err'.kind = "InvalidValueUsage"
                           /\ err'.arg = cur.next
            IN /\ (param.ref = "mut"
                     /\ (arg_is_borrowed(context, a) \/ SlotVal(context, a).kind = "None"))
                  => refused
               /\ (param.ref = "imm"
                     /\ (arg_is_mut_borrowed(context, a) \/ SlotVal(context, a).kind = "None"))
                  => refused]_vars

C3_Witness ==
    /\ pc = "args"
    /\ \E a \in ValidArgs(context) : Cardinality(SharedHandles(a)) = 2

\* C4: when the body of a command has returned, no slot is mutably
\* borrowed and the slots the command borrowed mutably hold a value again;
\* between two commands no slot is borrowed.
C4_RestoredBeforeResults ==
    /\ pc = "finish" =>
          /\ \A a \in DOMAIN context.borrowed : ~context.borrowed[a]
          /\ cur.kind \in {"SplitCoins", "MergeCoins"} => IsCoin(SlotVal(context, cur.a0))
          /\ cur.kind = "MoveCall" =>
                \A n \in 1..Len(cur.by_mut_ref) :
                    SlotVal(context, cur.args[cur.by_mut_ref[n].i + 1]).kind # "None"
    /\ pc = "idle" => DOMAIN context.borrowed = {}

C4_Witness ==
    pc = "finish" /\ cur.kind = "MoveCall" /\ Len(cur.by_mut_ref) = 2

IsAmount(v) == v.kind # "None" /\ try_from_value("u64", v) = ""

Amounts(c, cmd) == [n \in 1..Len(cmd.args) |-> SlotVal(c, cmd.args[n]).data[1]]

\* a SplitCoins of an available coin with amounts
SplitStep ==
    /\ BodyStep("SplitCoins")
    /\ IsCoin(SlotVal(context, cur'.a0))
    /\ \A n \in 1..Len(cur'.args) : IsAmount(SlotVal(context, cur'.args[n]))

\* C6: SplitCoins of a coin of balance V with amounts of sum at most V
\* returns one new coin per amount, of the type of the source, with that
\* balance and a fresh id, and restores the source with V minus the sum.
C6_SplitWithinBalance ==
    [][(SplitStep /\ SumSeq(Amounts(context, cur')) <= Balance(SlotVal(context, cur'.a0)))
       => LET source == SlotVal(context, cur'.a0)
              amounts == Amounts(context, cur')
          IN /\ pc' = "finish"
             /\ Len(cur'.results) = Len(amounts)
             /\ \A k \in 1..Len(amounts) :
                   /\ IsCoin(cur'.results[k])
                   /\ cur'.results[k].ty = source.ty
                   /\ Balance(cur'.results[k]) = amounts[k]
                   /\ cur'.results[k].id > context.ids_created
                   /\ cur'.results[k].id \in context'.new_ids
                   /\ \A m \in 1..Len(amounts) :
                         m # k => cur'.results[m].id # cur'.results[k].id
             /\ SlotVal(context', cur'.a0) =
                   [source EXCEPT !.data = <<Balance(source) - SumSeq(amounts)>>]]_vars

C6_Witness ==
    /\ pc = "finish" /\ cur.kind = "SplitCoins" /\ Len(cur.results) = 2
    /\ Balance(SlotVal(context, cur.a0)) = 0

\* C7 (as claimed): SplitCoins with amounts of sum above V fails and leaves
\* no result, the source in its slot with balance V, the amounts in their
\* slots and the id counter where it was.
C7_SplitFailsWithoutEffect ==
    [][(SplitStep /\ SumSeq(Amounts(context, cur')) > Balance(SlotVal(context, cur'.a0)))
       => /\ pc' = "failed"
          /\ Len(context'.results) = Len(context.results)
          /\ SlotVal(context', cur'.a0) = SlotVal(context, cur'.a0)
          /\ \A n \in 1..Len(cur'.args) :
                SlotVal(context', cur'.args[n]) = SlotVal(context, cur'.args[n])
          /\ context'.ids_created = context.ids_created]_vars

\* the position of the first amount that exceeds what is left of balance v
FirstExceeding(v, amounts) ==
    CHOOSE k \in 1..Len(amounts) :
        /\ SumSeq(SubSeq(amounts, 1, k)) > v
        /\ \A m \in 1..(k - 1) : SumSeq(SubSeq(amounts, 1, m)) <= v

\* C7 (amended): SplitCoins with amounts of sum above V fails with
\* InsufficientCoinBalance and records no result; the amounts and every
\* slot but the source keep their values; the source has left its slot,
\* which stays mutably borrowed, and one fresh id has been drawn per amount
\* up to the first that exceeds the remaining balance.
C7_SplitFailure ==
    [][(SplitStep /\ SumSeq(Amounts(context, cur')) > Balance(SlotVal(context, cur'.a0)))
       => /\ pc' = "failed"
          /\ err'.kind = "InsufficientCoinBalance"
          /\ Len(context'.results) = Len(context.results)
          /\ \A a \in ValidArgs(context) \ {cur'.a0} :
                SlotVal(context', a) = SlotVal(context, a)
          /\ SlotVal(context', cur'.a0) = NoneVal
          /\ arg_is_mut_borrowed(context', cur'.a0)
          /\ context'.ids_created =
                context.ids_created
                    + FirstExceeding(Balance(SlotVal(context, cur'.a0)),
                                     Amounts(context, cur'))]_vars

C7_Witness ==
    /\ pc = "failed" /\ cur.kind = "SplitCoins" /\ err.kind = "InsufficientCoinBalance"
    /\ Len(cur.args) = 2
    /\ context.ids_created = 5

\* C8: a successful MergeCoins restores the target with its balance plus
\* the balances of the merged coins, which have the type of the target and
\* whose ids are deleted, returns no result and keeps the total balance of
\* the coins of that type.
C8_MergePreservesBalance ==
    [][(BodyStep("MergeCoins") /\ pc' = "finish")
       => LET target == SlotVal(context, cur'.a0)
              coins == ArgVals(context, cur')
          IN /\ IsCoin(target)
             /\ \A n \in 1..Len(coins) :
                   /\ IsCoin(coins[n]) /\ coins[n].ty = target.ty
                   /\ coins[n].id \in context'.deleted
                   /\ SlotVal(context', cur'.args[n]) = NoneVal
             /\ SlotVal(context', cur'.a0) =
                   [target EXCEPT !.data =
                       <<Balance(target)
                           + SumSeq([n \in 1..Len(coins) |-> Balance(coins[n])])>>]
             /\ cur'.results = <<>>
             /\ TotalBalance(context', target.ty) = TotalBalance(context, target.ty)]_vars

C8_Witness ==
    /\ pc = "finish" /\ cur.kind = "MergeCoins" /\ Len(cur.args) = 2
    /\ Balance(SlotVal(context, cur.a0)) = 4

\* the positions of the coin arguments whose object has another type than
\* the target
Mismatched(c, cmd) ==
    {n \in 1..Len(cmd.args) :
        /\ SlotVal(c, cmd.args[n]).kind = "Object"
        /\ SlotVal(c, cmd.args[n]).ty # SlotVal(c, cmd.a0).ty}

Least(S) == CHOOSE n \in S : \A m \in S : n <= m

\* C9 (as claimed): a MergeCoins with a coin argument of another type than
\* the target fails with TypeMismatch at the index of the first such
\* argument.
C9_MismatchIndex ==
    [][(BodyStep("MergeCoins") /\ IsCoin(SlotVal(context, cur'.a0))
          /\ Mismatched(context, cur') # {})
       => /\ pc' = "failed"
          /\ err'.kind = "TypeMismatch"
          /\ err'.arg = Least(Mismatched(context, cur'))]_vars

\* C9 (amended): when moreover every coin argument is an object that can be
\* taken (the arguments are distinct, none is the target, none is empty)
\* and the coins before the first mismatched argument fit into the balance
\* of the target, the command fails with TypeMismatch at the index of the
\* first mismatched argument.
C9_MismatchIndexResolved ==
    [][(/\ BodyStep("MergeCoins") /\ IsCoin(SlotVal(context, cur'.a0))
        /\ Mismatched(context, cur') # {}
        /\ \A n \in 1..Len(cur'.args) :
              /\ SlotVal(context, cur'.args[n]).kind = "Object"
              /\ cur'.args[n] # cur'.a0
              /\ \A m \in 1..Len(cur'.args) : m # n => cur'.args[m] # cur'.args[n]
        /\ Balance(SlotVal(context, cur'.a0))
             + SumSeq([n \in 1..(Least(Mismatched(context, cur')) - 1) |->
                          Balance(SlotVal(context, cur'.args[n]))]) <= MaxBalance)
       => /\ pc' = "failed"
          /\ err'.kind = "TypeMismatch"
          /\ err'.arg = Least(Mismatched(context, cur'))]_vars

C9_Witness ==
    /\ pc = "failed" /\ cur.kind = "MergeCoins" /\ err.kind = "TypeMismatch"
    /\ err.arg = 2
    /\ cur.args[1] # cur.args[2]
    /\ Cardinality(context.deleted) = 1

\* C10: an Upgrade writes a package only if the ticket names the supplied
\* package id, its digest is the digest of the supplied modules and
\* dependency ids, the package exists in the store, the modules verify and
\* the policy accepts them; the checks fail in that order; an Upgrade that
\* fails writes no package and returns nothing, one that succeeds writes
\* one package and returns one receipt.
C10_UpgradeWritesChecked ==
    [][BodyStep("Upgrade") =>
        LET v == SlotVal(context, cur'.a0)
            ticket == UpgradeTicket(v.data)
            new == deserialize_modules(cur'.modules)
            existing == {p \in state_view.packages : p.id = ticket.package}
            written == context'.new_packages # context.new_packages
            verifies == \A n \in 1..Len(new.modules) : new.modules[n].verifies = "ok"
        IN /\ written =>
                /\ v.kind = "Loaded" /\ v.ty = "UpgradeTicket"
                /\ ticket.package = cur'.package_id
                /\ ticket.digest = <<cur'.modules, cur'.dep_ids>>
                /\ existing # {}
                /\ new.ok /\ verifies
                /\ ticket.policy \in UpgradePolicies
                /\ \A p \in existing : \A m \in 1..Len(p.modules) :
                      \E n \in 1..Len(new.modules) :
                          /\ new.modules[n].name = p.modules[m].name
                          /\ p.modules[m].decls \subseteq new.modules[n].decls
                /\ pc' = "finish"
                /\ \E p \in existing :
                      context'.new_packages =
                          Append(context.new_packages,
                                 Package(context.ids_created + 1, p.original, new.modules))
           /\ pc' = "failed" => (~written /\ cur'.results = <<>>)
           /\ pc' = "finish" =>
                /\ written
                /\ Len(cur'.results) = 1
                /\ cur'.results[1].ty = "UpgradeReceipt"
                /\ cur'.results[1].data = <<ticket.cap, context.ids_created + 1>>
           /\ (v.kind = "Loaded" /\ v.ty = "UpgradeTicket" /\ cur'.fault # "charge") =>
                /\ ticket.package # cur'.package_id
                      => err'.kind = "PackageIDDoesNotMatch"
                /\ (ticket.package = cur'.package_id
                      /\ ticket.digest # <<cur'.modules, cur'.dep_ids>>)
                      => err'.kind = "DigestDoesNotMatch"
                /\ (ticket.package = cur'.package_id
                      /\ ticket.digest = <<cur'.modules, cur'.dep_ids>>
                      /\ existing = {})
                      => err'.kind = "PublishUpgradeMissingDependency"
                /\ (ticket.package = cur'.package_id
                      /\ ticket.digest = <<cur'.modules, cur'.dep_ids>>
                      /\ existing # {} /\ new.ok /\ cur'.dep_ids = <<>>
                      /\ cur'.fault = "" /\ ~verifies)
                      => err'.kind \in {"VMVerificationOrDeserializationError",
                                         "SuiMoveVerificationError"}]_vars

C10_Witness ==
    /\ pc = "finish" /\ cur.kind = "Upgrade"
    /\ Len(context.new_packages) = 1
    /\ context.new_packages[1].original = 10
    /\ context.new_packages[1].id # 10

\* an Upgrade whose argument is an upgrade ticket, and that ticket
UpgradeStep ==
    /\ BodyStep("Upgrade")
    /\ SlotVal(context, cur'.a0).kind = "Loaded"
    /\ SlotVal(context, cur'.a0).ty = "UpgradeTicket"

StepTicket == UpgradeTicket(SlotVal(context, cur'.a0).data)

DigestMismatch == StepTicket.digest # <<cur'.modules, cur'.dep_ids>>

C12_FailureKeepsPackageTable ==
    [][((BodyStep("Publish") \/ BodyStep("Upgrade")) /\ pc' = "failed")
       => context'.new_packages = context.new_packages]_vars

\* a Publish has failed at the minting of the capability and its package is
\* in the table
C12_Witness ==
    /\ pc = "failed" /\ cur.kind = "Publish" /\ err.cmd = 0
    /\ cur.fault = "fresh_id"
    /\ Len(context.new_packages) = 1

\* C13: an Upgrade that gets past the fee takes the ticket out of its slot,
\* whether it succeeds or fails; an emptied slot stays empty; an Upgrade
\* that names an emptied slot fails with InvalidValueUsage at argument 0 and
\* writes no package.
C13_TicketSingleUse ==
    [][/\ (UpgradeStep /\ cur'.fault # "charge")
            => SlotVal(context', cur'.a0) = NoneVal
       /\ \A a \in ValidArgs(context) :
            (SlotVal(context, a) = NoneVal /\ ~arg_is_mut_borrowed(context, a))
                => SlotVal(context', a) = NoneVal
       /\ (BodyStep("Upgrade") /\ cur'.fault # "charge"
              /\ SlotVal(context, cur'.a0) = NoneVal)
            => /\ pc' = "failed"
               /\ err'.kind = "InvalidValueUsage" /\ err'.arg = 0
               /\ context'.new_packages = context.new_packages]_vars

\* a second Upgrade with the ticket of an Upgrade that succeeded has failed
C13_Witness ==
    /\ pc = "failed" /\ cur.kind = "Upgrade" /\ err.kind = "InvalidValueUsage"
    /\ err.cmd = 2 /\ cur.a0 = NestedResult(0, 0)
    /\ Len(context.new_packages) = 1

\* the ids of the packages of a sequence or a set
PackageIdsOf(packages) == {packages[n].id : n \in DOMAIN packages}

StoredIds == {p.id : p \in StoredPackages}

\* C14: in normal mode, a Publish that succeeds writes one package whose
\* runtime id is its storage id, a fresh id; an Upgrade that succeeds writes
\* one package with the runtime id of the package it upgrades and a fresh
\* storage id; the storage ids of the packages written are pairwise
\* distinct and are not ids of stored packages; the stored packages do not
\* change.
C14_PackageIdentities ==
    /\ [](/\ state_view.packages = StoredPackages
          /\ \A m, n \in DOMAIN context.new_packages :
                m # n => context.new_packages[m].id # context.new_packages[n].id
          /\ PackageIdsOf(context.new_packages) \cap StoredIds = {})
    /\ [][(BodyStep("Publish") /\ pc' = "finish")
              => \E id \in (context.ids_created + 1)..context'.ids_created :
                    context'.new_packages =
                        Append(context.new_packages,
                               Package(id, id, deserialize_modules(cur'.modules).modules))]_vars
    /\ [][(BodyStep("Upgrade") /\ pc' = "finish")
              => \E id \in (context.ids_created + 1)..context'.ids_created :
                 \E p \in state_view.packages :
                    /\ p.id = StepTicket.package
                    /\ context'.new_packages =
                          Append(context.new_packages,
                                 Package(id, p.original,
                                         deserialize_modules(cur'.modules).modules))]_vars

\* a package has been published and the stored package has been upgraded
C14_Witness ==
    /\ pc = "finish" /\ cur.kind = "Upgrade"
    /\ Len(context.new_packages) = 2
    /\ context.new_packages[1].original = context.new_packages[1].id
    /\ context.new_packages[2].original = 10
    /\ context.new_packages[2].id \notin {10, context.new_packages[1].id}

\* the declarations of a module, each with its definition
Declarations(module) == {<<d, module.code>> : d \in module.decls}

\* the package and the modules of the call of check_compatibility that
\* was made
CheckedPackage == CHOOSE p \in state_view.packages : p.id = cur.package_id

CheckedModules == deserialize_modules(cur.modules).modules

\* the modules of a sequence that have this name
Named(modules, name) == {n \in 1..Len(modules) : modules[n].name = name}

\* C15: under the Additive policy check_compatibility succeeds exactly when
\* every module of the existing package has a module of the same name in
\* the new set with all its declarations, and gives IncompatibleUpgrade
\* otherwise; modules that only the new set has do not matter.
C15_AdditiveSubset ==
    (cur.kind = "check_compatibility" /\ cur.function = "Additive")
    => LET included ==
               \A m \in 1..Len(CheckedPackage.modules) :
                   \E n \in Named(CheckedModules, CheckedPackage.modules[m].name) :
                       Declarations(CheckedPackage.modules[m])
                           \subseteq Declarations(CheckedModules[n])
       IN /\ included <=> err = NoErr
          /\ ~included <=> err.kind = "IncompatibleUpgrade"

\* a module with one more declaration and a module set with one more
\* module have been accepted under the Additive policy
C15_Witness ==
    /\ cur.kind = "check_compatibility" /\ cur.function = "Additive"
    /\ err = NoErr /\ cur.package_id = 10 /\ cur.modules = "extra"

\* the new module set is structurally equal to the existing one
StructurallyEqual ==
    /\ {CheckedModules[n].name : n \in 1..Len(CheckedModules)}
          = {CheckedPackage.modules[m].name : m \in 1..Len(CheckedPackage.modules)}
    /\ \A m \in 1..Len(CheckedPackage.modules) :
          \A n \in Named(CheckedModules, CheckedPackage.modules[m].name) :
              Declarations(CheckedPackage.modules[m]) = Declarations(CheckedModules[n])

\* C16 (as claimed): under the DepOnly policy check_compatibility succeeds
\* only if the new module set is structurally equal to the existing one,
\* and gives IncompatibleUpgrade otherwise.
C16_DepOnlyEqual ==
    (cur.kind = "check_compatibility" /\ cur.function = "DepOnly")
    => /\ err = NoErr => StructurallyEqual
       /\ ~StructurallyEqual => err.kind = "IncompatibleUpgrade"

\* C16 (amended): when the protocol disallows new modules in dependency
\* only packages, check_compatibility under the DepOnly policy succeeds
\* exactly when the new module set is structurally equal to the existing
\* one and gives IncompatibleUpgrade otherwise; when the protocol does not,
\* it succeeds exactly when every existing module has an equal module of
\* the same name in the new set, so that added modules are accepted and
\* removed or changed ones give IncompatibleUpgrade.
C16_DepOnlyEqualWhenDisallowed ==
    (cur.kind = "check_compatibility" /\ cur.function = "DepOnly")
    => LET kept ==
               \A m \in 1..Len(CheckedPackage.modules) :
                   \E n \in Named(CheckedModules, CheckedPackage.modules[m].name) :
                       Declarations(CheckedPackage.modules[m])
                           = Declarations(CheckedModules[n])
           accepted ==
               IF env.protocol_config.disallow_new_modules_in_deps_only_packages
               THEN StructurallyEqual ELSE kept
       IN /\ accepted <=> err = NoErr
          /\ ~accepted <=> err.kind = "IncompatibleUpgrade"

\* an added module has been refused under the DepOnly policy
C16_Witness ==
    /\ cur.kind = "check_compatibility" /\ cur.function = "DepOnly"
    /\ env.protocol_config.disallow_new_modules_in_deps_only_packages
    /\ cur.package_id = 10 /\ cur.modules = "extra"
    /\ err.kind = "IncompatibleUpgrade"

\* a step that starts a MoveCall command: the function is looked up and
\* checked
CallStep == pc = "idle" /\ cur'.kind = "MoveCall"

\* a function of the table that is neither entry nor public
IsPrivateNonEntry(f) ==
    /\ f \in FunctionNames
    /\ Functions[f].visibility \in {"Private", "Friend"}
    /\ ~Functions[f].is_entry

\* C17: when arbitrary function calls are not allowed, the function of a
\* MoveCall that resolves its arguments or runs in the VM is entry or
\* public, and a MoveCall of a private or friend function that is not entry
\* fails with NonEntryFunctionInvoked before its arguments are resolved.
C17_OnlyEntryOrPublic ==
    /\ []((pc = "args" /\ ~allow_arbitrary_function_calls(env.mode))
            => ~IsPrivateNonEntry(cur.function))
    /\ [][(CallStep /\ ~allow_arbitrary_function_calls(env.mode)
              /\ IsPrivateNonEntry(cur'.function))
           => /\ pc' = "failed"
              /\ err'.kind = "NonEntryFunctionInvoked"
              /\ context' = context]_vars

\* a friend function that is not entry has been refused in the normal mode
C17_Witness ==
    /\ pc = "failed" /\ cur.kind = "MoveCall" /\ cur.function = "internal"
    /\ env.mode = "Normal" /\ err.kind = "NonEntryFunctionInvoked"

\* a MoveCall of a function named init that its module declares
InitCallStep ==
    CallStep /\ cur'.function \in FunctionNames /\ IdentOf(cur'.function) = INIT_FN_NAME

\* C18 (as claimed): a MoveCall of a function named init fails before its
\* arguments are resolved, and under the ban it fails with
\* NonEntryFunctionInvoked.
C18_InitNeverCalled ==
    [][InitCallStep
       => /\ pc' = "failed"
          /\ env.protocol_config.ban_entry_init
                => err'.kind = "NonEntryFunctionInvoked"]_vars

\* C18 (amended): under the ban a MoveCall of a function named init fails
\* with NonEntryFunctionInvoked, whatever its visibility and entry flag and
\* whatever the mode, and changes nothing; without the ban it is checked as
\* any other function: it fails with NonEntryFunctionInvoked when init is
\* private or friend and not entry and the mode does not allow arbitrary
\* calls, and a MoveCall of init resolves its arguments only when init is
\* entry or public or the mode allows arbitrary calls.
C18_InitBanned ==
    /\ [](pc = "args" /\ IdentOf(cur.function) = INIT_FN_NAME
            => /\ ~env.protocol_config.ban_entry_init
               /\ \/ allow_arbitrary_function_calls(env.mode)
                  \/ ~IsPrivateNonEntry(cur.function))
    /\ [][InitCallStep
           => /\ env.protocol_config.ban_entry_init
                    => /\ pc' = "failed"
                       /\ err'.kind = "NonEntryFunctionInvoked"
                       /\ context' = context
              /\ (/\ ~env.protocol_config.ban_entry_init
                  /\ ~allow_arbitrary_function_calls(env.mode)
                  /\ IsPrivateNonEntry(cur'.function))
                    => /\ pc' = "failed"
                       /\ err'.kind = "NonEntryFunctionInvoked"]_vars

\* under the ban, a MoveCall of an init that is entry has been refused
\* after a Publish that ran the initializer of its module
C18_Witness ==
    /\ pc = "failed" /\ cur.kind = "MoveCall" /\ cur.function = "e_init"
    /\ env.protocol_config.ban_entry_init
    /\ err.kind = "NonEntryFunctionInvoked" /\ err.cmd = 1
    /\ Len(context.new_packages) = 1

\* a function of the framework module event, or a private transfer
\* function of the framework module transfer
IsPrivileged(f) ==
    /\ f \in FunctionNames
    /\ \/ ModuleOf(f) = EVENT_MODULE
       \/ ModuleOf(f) = TRANSFER_MODULE /\ IdentOf(f) \in PRIVATE_TRANSFER_FUNCTIONS

\* C19: in every mode, a MoveCall of a function of the framework module
\* event or of a private transfer function of the framework module transfer
\* fails with NonEntryFunctionInvoked before its arguments are resolved; a
\* MoveCall of a public_ variant of a transfer function is not refused with
\* that error and goes on to its arguments when its arity is right.
C19_PrivilegedFunctionsRefused ==
    /\ [](pc = "args" => ~IsPrivileged(cur.function))
    /\ [][(CallStep /\ IsPrivileged(cur'.function))
           => /\ pc' = "failed"
              /\ err'.kind = "NonEntryFunctionInvoked"
              /\ context' = context]_vars
    /\ [][(CallStep /\ cur'.function \in {"public_transfer", "public_share_object"})
           => /\ err'.kind # "NonEntryFunctionInvoked"
              /\ Len(cur'.args) = Len(Functions[cur'.function].parameters)
                    => pc' = "args"]_vars

\* a private transfer function has been refused in the mode that allows
\* arbitrary function calls, after a call of its public variant ran
C19_Witness ==
    /\ pc = "failed" /\ cur.kind = "MoveCall" /\ cur.function = "share_object"
    /\ env.mode = "DevInspect" /\ err.kind = "NonEntryFunctionInvoked"
    /\ err.cmd = 1 /\ SlotVal(context, Input(0)) = NoneVal

\* the number of parameters of a function that get no explicit argument:
\* the transaction context when it is the last parameter and a reference,
\* and the one-time witness of an initializer of two parameters
Implicit(f, is_init) ==
    LET parameters == Functions[f].parameters
        last == parameters[Len(parameters)]
    IN (IF parameters # <<>> /\ last.ty = "TxContext" /\ last.ref \in {"mut", "imm"}
        THEN 1 ELSE 0)
       + (IF is_init /\ Len(parameters) = 2 THEN 1 ELSE 0)

\* the positions of the modules whose initializer gets a wrong number of
\* arguments
BadInits(modules) ==
    {n \in 1..Len(modules) :
        /\ modules[n].init # "none"
        /\ Implicit(InitFunction(modules[n]), TRUE)
              # Len(Functions[InitFunction(modules[n])].parameters)}

\* C20: a MoveCall that passed the checks of the function resolves its
\* arguments exactly when the number of its arguments plus the number of
\* implicit parameters is the number of declared parameters, and fails with
\* ArityMismatch otherwise; the call of an initializer by Publish, which has
\* no argument, fails with ArityMismatch exactly when the implicit
\* parameters are not all its parameters.
C20_ArityWithImplicit ==
    /\ [](pc = "args"
            => Len(cur.args) + Implicit(cur.function, FALSE)
                  = Len(Functions[cur.function].parameters))
    /\ [][(CallStep /\ check_visibility_and_signature(env, cur'.function, FALSE).ok)
           => IF Len(cur'.args) + Implicit(cur'.function, FALSE)
                    = Len(Functions[cur'.function].parameters)
              THEN pc' = "args"
              ELSE pc' = "failed" /\ err'.kind = "ArityMismatch" /\ context' = context]_vars
    /\ [][(BodyStep("Publish") /\ cur'.fault \notin {"charge", "new_package"})
           => LET modules == deserialize_modules(cur'.modules).modules
                  bad == BadInits(modules)
              IN /\ bad = {} => err'.kind # "ArityMismatch"
                 /\ (bad # {} /\ \A n \in 1..(Least(bad) - 1) : modules[n].init # "abort")
                       => pc' = "failed" /\ err'.kind = "ArityMismatch"]_vars

\* a call with an argument for the transaction context has been refused
C20_Witness ==
    /\ pc = "failed" /\ cur.kind = "MoveCall" /\ cur.function = "touch_ctx"
    /\ Len(cur.args) = 2 /\ err.kind = "ArityMismatch"

\* the step of a Move call that resolves and checks its next argument, the
\* argument, the value in its slot and the parameter it is given to
ArgumentStep == pc = "args" /\ cur.next < Len(cur.args)

NextArg == cur.args[cur.next + 1]

NextValue == SlotVal(context, NextArg)

NextParam == Functions[cur.function].parameters[cur.next + 1]

\* an object or a value made by an earlier command
IsTyped(v) == v.kind \in {"Object", "Loaded"}

\* the argument is resolved and, for a private entry function, not marked:
\* its type is checked
ReachesTypeCheck ==
    /\ ResolveArgument(context, NextParam, cur.next, NextArg).ok
    /\ ~(cur.function_kind \in {"PrivateEntry", "Init"}
           /\ was_used_in_non_entry_move_call(NextValue))

\* the elements of the MakeMoveVec of this step whose type is checked
\* against the element type (all of them under a tag, all but the first
\* without), and the element type
CheckedElements ==
    {n \in 1..Len(cur'.args) :
        /\ IsTyped(SlotVal(context, cur'.args[n]))
        /\ cur'.function # "" \/ (n > 1 /\ SlotVal(context, cur'.args[1]).kind = "Object")}

ElementType ==
    IF cur'.function # "" THEN cur'.function ELSE SlotVal(context, cur'.args[1]).ty

MismatchedElements ==
    {n \in CheckedElements : SlotVal(context, cur'.args[n]).ty # ElementType}

\* the n-th element is still in its slot when its turn comes
ElementAvailable(n) ==
    \/ is_copyable(SlotVal(context, cur'.args[n]))
    \/ \A m \in 1..(n - 1) : cur'.args[m] # cur'.args[n]

RECURSIVE IsPrimitiveShape(_)
IsPrimitiveShape(ty) ==
    \/ ty \in {"bool", "u8", "u16", "u32", "u64", "u128", "u256", "address",
               "ID", "String", "AsciiString"}
    \/ ty \in VectorTypes \cup OptionTypes /\ IsPrimitiveShape(TypeArgument[ty])

\* the bytes of this shape are a value of this type
ValidBytes(shape, ty) ==
    IsPrimitiveShape(ty) /\ primitive_serialization_layout(ty) \in Decodes(shape)

\* what the strict mode does with pure bytes of a shape given at index i for
\* a type, when the types with a primitive shape are those of the set
\* shapes: accepted is whether the bytes were accepted, e the error
PureOutcome(shapes, shape, ty, i, accepted, e) ==
    /\ accepted => ty \in shapes /\ ValidBytes(shape, ty)
    /\ ty \notin shapes
          => ~accepted
             /\ e = with_command_index(
                       command_argument_error("InvalidUsageOfPureArg", i), idx)
    /\ (ty \in shapes /\ ~ValidBytes(shape, ty))
          => ~accepted
             /\ e = with_command_index(command_argument_error("InvalidBCSBytes", i), idx)

\* the pure bytes given to a parameter of a Move call in the strict mode
PureArgumentStep ==
    /\ ArgumentStep /\ NextValue.kind = "Any" /\ ~allow_arbitrary_values(env.mode)
    /\ ResolveArgument(context, NextParam, cur.next, NextArg).ok

\* C22 (as claimed): in the strict mode, pure bytes are accepted for a
\* parameter only if its type is a boolean, an integer, an address, a
\* string, an option or a vector of these, or the receiving wrapper, and the
\* bytes are valid for it; for every other type the call fails with
\* InvalidUsageOfPureArg, and bytes that are not valid fail with
\* InvalidBCSBytes, at the index of the argument.
C22_PureShapesWithReceiving ==
    [][PureArgumentStep
        => PureOutcome({ty \in Types : IsPrimitiveShape(ty)} \cup {"Receiving<Obj>"},
                       NextValue.ty, NextParam.ty, cur.next, pc' = "args", err')]_vars

\* the elements of the MakeMoveVec of this step that are pure bytes and are
\* checked against the element type
PureElements ==
    {n \in 1..Len(cur'.args) :
        /\ SlotVal(context, cur'.args[n]).kind = "Any"
        /\ cur'.function # "" \/ (n > 1 /\ SlotVal(context, cur'.args[1]).kind = "Object")}

RefusedPureElements ==
    {n \in PureElements : ~ValidBytes(SlotVal(context, cur'.args[n]).ty, ElementType)}

\* C22 (amended): in the strict mode, pure bytes are accepted for a Move
\* call parameter, as an element of a MakeMoveVec or as the upgrade ticket
\* only if the expected type is a boolean, an integer, an address, an object
\* id, a string, or an option or a vector of these, and the bytes are valid
\* for it; for every other type, the receiving wrapper included, the command
\* fails with InvalidUsageOfPureArg, and bytes that are not valid fail with
\* InvalidBCSBytes, at the index of the argument.
C22_PureShapes ==
    /\ [][PureArgumentStep
           => PureOutcome({ty \in Types : IsPrimitiveShape(ty)},
                          NextValue.ty, NextParam.ty, cur.next, pc' = "args", err')]_vars
    /\ [][(BodyStep("MakeMoveVec") /\ ~allow_arbitrary_values(env.mode))
           => /\ pc' = "finish" => RefusedPureElements = {}
              /\ RefusedPureElements # {}
                    => /\ pc' = "failed"
                       /\ err'.cmd = idx
                       /\ err'.arg <= Least(RefusedPureElements) - 1
                       /\ err'.arg = Least(RefusedPureElements) - 1
                             => err'.kind = IF IsPrimitiveShape(ElementType)
                                            THEN "InvalidBCSBytes"
                                            ELSE "InvalidUsageOfPureArg"]_vars
    /\ [][(BodyStep("Upgrade") /\ ~allow_arbitrary_values(env.mode)
             /\ SlotVal(context, cur'.a0).kind = "Any")
           => /\ pc' = "failed"
              /\ cur'.fault # "charge"
                    => err' = with_command_index(
                                 command_argument_error("InvalidUsageOfPureArg", 0),
                                 idx)]_vars

\* in the strict mode, pure bytes have been refused for the receiving
\* wrapper with InvalidUsageOfPureArg
C22_Witness ==
    /\ pc = "failed" /\ cur.kind = "MoveCall" /\ env.mode = "Normal"
    /\ cur.function = "receive" /\ cur.values # <<>> /\ cur.values[1].kind = "Any"
    /\ err.kind = "InvalidUsageOfPureArg" /\ err.arg = 0

\* the return values of a function that are references (counted from 1)
ReferenceReturns(f) ==
    {n \in 1..Len(Functions[f].return_) : Functions[f].return_[n].ref # "val"}

\* C23: a MoveCall of an entry or public function whose signature returns a
\* reference fails in the strict mode with InvalidPublicFunctionReturnType
\* and the index of the first such return value, with no argument resolved
\* and no call of the VM; in the mode that allows arbitrary values the call
\* is not refused for it, and when it returns, each return value is a value
\* of the type without the reference.
C23_ReferenceReturnRefused ==
    /\ [][(CallStep /\ cur'.function \in FunctionNames
             /\ ReferenceReturns(cur'.function) # {}
             /\ ~IsPrivateNonEntry(cur'.function))
           => IF allow_arbitrary_values(env.mode)
              THEN err'.kind # "InvalidPublicFunctionReturnType"
              ELSE /\ pc' = "failed"
                   /\ err' = [kind |-> "InvalidPublicFunctionReturnType",
                              arg |-> Least(ReferenceReturns(cur'.function)) - 1,
                              cmd |-> idx]
                   /\ context' = context
                   /\ cur'.values = <<>>]_vars
    /\ [](pc = "args" /\ ReferenceReturns(cur.function) # {}
            => allow_arbitrary_values(env.mode))
    /\ [][(pc = "args" /\ pc' = "finish" /\ ReferenceReturns(cur.function) # {})
           => /\ Len(cur'.results) = Len(Functions[cur.function].return_)
              /\ \A n \in 1..Len(cur'.results) :
                    /\ cur'.results[n].ty = Functions[cur.function].return_[n].ty
                    /\ cur'.results[n].kind =
                          IF get_type_abilities(cur'.results[n].ty).key
                          THEN "Object" ELSE "Loaded"]_vars

\* in the strict mode a call of a function whose second return value is a
\* reference has been refused with index 1
C23_Witness ==
    /\ pc = "failed" /\ cur.kind = "MoveCall" /\ cur.function = "pair"
    /\ env.mode = "Normal"
    /\ err.kind = "InvalidPublicFunctionReturnType" /\ err.arg = 1

\* a state after a call of amplification_bound_ that returned a bound, the
\* budget and the type of the call
BoundReturned == pc = "done" /\ cur.kind = "amplification_bound_" /\ cur.results # <<>>

Budget == env.protocol_config.max_ptb_value_size[1]

FixedWidthScalars == {"bool", "u8", "u16", "u32", "u64"}

WideTypes == {"u128", "u256", "address"}

\* the number of Option layers around a type, and the type inside them
RECURSIVE OptionLayers(_)
OptionLayers(ty) == IF ty \in OptionTypes THEN 1 + OptionLayers(TypeArgument[ty]) ELSE 0

RECURSIVE InsideOptions(_)
InsideOptions(ty) == IF ty \in OptionTypes THEN InsideOptions(TypeArgument[ty]) ELSE ty

\* options of scalars, of wide types and of strings, and the strings
IsOptionOrString(ty) ==
    /\ InsideOptions(ty) \in FixedWidthScalars \cup WideTypes \cup {"String", "AsciiString"}
    /\ ty \in OptionTypes \/ ty \in {"String", "AsciiString"}

\* C24 (as claimed): the bound returned for a budget B is floor(B / A) with
\* A = 1 for bool, u8, u16, u32 and u64, A = 2 for u128, u256 and address,
\* A = 2 + the number of Option layers for options and strings, and A = the
\* maximal value depth for a type without a primitive layout.
C24_FactorTwoPlusNesting ==
    BoundReturned
        => LET ty == cur.function IN
           /\ ty \in FixedWidthScalars => cur.results = <<Budget \div 1>>
           /\ ty \in WideTypes => cur.results = <<Budget \div 2>>
           /\ IsOptionOrString(ty) => cur.results = <<Budget \div (2 + OptionLayers(ty))>>
           /\ ~IsPrimitiveShape(ty)
                 => cur.results = <<Budget \div env.protocol_config.max_move_value_depth>>

\* the factor of a type with a primitive layout: 1 for the fixed-width
\* scalars, 2 for the wide integers, addresses, object ids and strings, one
\* more for each Option layer, that of the element type for a vector
RECURSIVE Factor(_)
Factor(ty) ==
    CASE ty \in FixedWidthScalars -> 1
      [] ty \in OptionTypes -> 1 + Factor(TypeArgument[ty])
      [] ty \in VectorTypes -> Factor(TypeArgument[ty])
      [] OTHER -> 2

\* C24 (amended): the bound returned for a budget B is floor(B / A) with
\* A = 1 for bool, u8, u16, u32 and u64, A = 2 for u128, u256, address,
\* object ids and strings, A = 1 + the factor of T for Option<T>, the factor
\* of T for vector<T>, and A = the maximal value depth for a type without a
\* primitive layout; a bound is returned when the mode does not predefine
\* packages and a budget is configured.
C24_FactorPerOptionLayer ==
    /\ BoundReturned
          => cur.results =
                <<Budget \div (IF IsPrimitiveShape(cur.function)
                               THEN Factor(cur.function)
                               ELSE env.protocol_config.max_move_value_depth)>>
    /\ (pc = "done" /\ cur.kind = "amplification_bound_")
          => (cur.results = <<>>
                <=> \/ packages_are_predefined(env.mode)
                    \/ env.protocol_config.max_ptb_value_size = <<>>)

\* the bound of an Option<u64> under a budget of 100 is 50
C24_Witness ==
    /\ BoundReturned /\ cur.function = OptionOf("u64")
    /\ Budget = 100 /\ cur.results = <<50>>

\* C25: with a budget of 100 the bound of a one-byte scalar (bool, u8) is
\* 100 and that of an Option of it is smaller; for every budget and every
\* type T with a primitive layout, the bound of Option<T> is at most that of
\* T.
C25_OptionNeverRaisesBound ==
    (BoundReturned /\ cur.function \in TypesUpTo(MaxTypeDepth - 1)
       /\ IsPrimitiveShape(cur.function))
        => LET wrapped == amplification_bound_(env.mode, env.protocol_config,
                                               OptionOf(cur.function))
           IN /\ wrapped # <<>>
              /\ wrapped[1] <= cur.results[1]
              /\ (Budget = 100 /\ cur.function \in {"bool", "u8"})
                    => cur.results = <<100>> /\ wrapped[1] < 100

\* the bound of a u8 under a budget of 100 is 100, that of an Option<u8> 50
C25_Witness ==
    /\ BoundReturned /\ cur.function = "u8" /\ Budget = 100
    /\ cur.results = <<100>>
    /\ amplification_bound_(env.mode, env.protocol_config, OptionOf("u8")) = <<50>>

\* a type without the copy ability
NoCopy(ty) == ~get_type_abilities(ty).copy

\* the step failed because a value is larger than its bound
TooBig == pc' = "failed" /\ err'.kind = "MoveValueTooBig"

\* the bound of amplification_bound_ for a type under the configuration of
\* the transaction: the budget divided by the factor of the type
BoundOf(ty) ==
    Budget \div (IF IsPrimitiveShape(ty) THEN Factor(ty)
                 ELSE env.protocol_config.max_move_value_depth)

Budgeted == env.protocol_config.max_ptb_value_size # <<>>

\* a MakeMoveVec with at least one element
VectorStep == BodyStep("MakeMoveVec") /\ Len(cur'.args) > 0

\* C26 (as claimed): no command fails on the size of a MakeMoveVec element,
\* of the upgrade ticket or of pure bytes checked in the mode that allows
\* arbitrary values when the expected type has no copy, whatever the
\* protocol configuration.
C26_NoCopyNeverBounded ==
    /\ [][(VectorStep /\ SlotVal(context, cur'.args[1]).kind # "None"
             /\ NoCopy(ElementType)) => ~TooBig]_vars
    /\ [][BodyStep("Upgrade") => ~TooBig]_vars
    /\ [][(ArgumentStep /\ NoCopy(NextParam.ty)) => ~TooBig]_vars

\* C26 (amended): with max_ptb_value_size_v2, a MakeMoveVec element and the
\* upgrade ticket of a type without copy get no size bound; without it they
\* are bound like every type, by the budget divided by the value depth;
\* pure bytes that the mode that allows arbitrary values checks for a
\* parameter are bound by the budget divided by the factor of the type of
\* the parameter, whatever its abilities and whatever the switch.
C26_NoCopyExemptUnderV2 ==
    /\ [][(VectorStep /\ SlotVal(context, cur'.args[1]).kind # "None"
             /\ NoCopy(ElementType) /\ env.protocol_config.max_ptb_value_size_v2
             /\ ~allow_arbitrary_values(env.mode))
           => ~TooBig]_vars
    /\ [][(VectorStep /\ Len(cur'.args) = 1
             /\ SlotVal(context, cur'.args[1]).kind = "Object"
             /\ cur'.function \in {"", SlotVal(context, cur'.args[1]).ty})
           => TooBig <=> /\ ~env.protocol_config.max_ptb_value_size_v2
                         /\ Budgeted
                         /\ serialized_size(SlotVal(context, cur'.args[1]))
                               > BoundOf(ElementType)]_vars
    /\ [][(UpgradeStep /\ cur'.fault # "charge")
           => TooBig <=> /\ ~env.protocol_config.max_ptb_value_size_v2
                         /\ Budgeted
                         /\ serialized_size(SlotVal(context, cur'.a0))
                               > BoundOf("UpgradeTicket")]_vars
    /\ [][(ArgumentStep /\ NextValue.kind = "Any"
             /\ ResolveArgument(context, NextParam, cur.next, NextArg).ok)
           => TooBig <=> /\ allow_arbitrary_values(env.mode)
                         /\ Budgeted
                         /\ serialized_size(NextValue) > BoundOf(NextParam.ty)]_vars

\* without max_ptb_value_size_v2 an object has been refused as an element of
\* a MakeMoveVec for its size
C26_Witness ==
    /\ pc = "failed" /\ cur.kind = "MakeMoveVec" /\ err.kind = "MoveValueTooBig"
    /\ ~env.protocol_config.max_ptb_value_size_v2
    /\ env.mode = "Normal" /\ cur.function \in {"", "Obj"}

\* the execution has returned to execute: a command failed, or the commands
\* are over and context.finish has run
Returned == pc \in {"failed", "done"}

CommandArgs(cmd) == {cmd.a0} \cup {cmd.args[n] : n \in 1..Len(cmd.args)}

\* q starts with p
IsPrefix(p, q) == Len(p) <= Len(q) /\ SubSeq(q, 1, Len(p)) = p

\* C29: no step of the execution undoes a native effect: the transfers, the
\* deleted ids, the new ids, the count of ids drawn and the staged packages
\* only grow, and the results of the completed commands stay recorded; the
\* step in which command i fails leaves the results of the commands 0..i-1
\* in place and changes no value but those of the arguments that the failing
\* command names.
C29_EffectsRetained ==
    /\ [][/\ context.transfers \subseteq context'.transfers
          /\ context.deleted \subseteq context'.deleted
          /\ context.new_ids \subseteq context'.new_ids
          /\ context.ids_created <= context'.ids_created
          /\ IsPrefix(context.new_packages, context'.new_packages)
          /\ Len(context.results) <= Len(context'.results)]_vars
    /\ [][pc' = "failed"
           => /\ Len(context'.results) = idx
              /\ Len(context.results) = idx
              /\ \A a \in ValidArgs(context) \ CommandArgs(cur') :
                    SlotVal(context', a) = SlotVal(context, a)]_vars

\* the second command failed after the first one transferred an object, and
\* the transfer is still recorded
C29_Witness ==
    /\ pc = "failed" /\ idx = 1 /\ err.cmd = 1
    /\ context.transfers # {}

\* a Publish that reaches the verification of its bundle, the modules of
\* the bundle and the initializers that this step called, in order
PublishStep ==
    /\ BodyStep("Publish")
    /\ cur'.fault \notin {"charge", "new_package"}
    /\ deserialize_modules(cur'.modules).ok

Bundle == deserialize_modules(cur'.modules).modules

StepInitCalls ==
    SubSeq(context'.init_calls, Len(context.init_calls) + 1, Len(context'.init_calls))

\* the modules of the bundle that define init, in the order of the bundle
RECURSIVE ModulesWithInit(_)
ModulesWithInit(modules) ==
    IF modules = <<>> THEN <<>>
    ELSE IF Head(modules).init = "none" THEN ModulesWithInit(Tail(modules))
    ELSE <<Head(modules).name>> \o ModulesWithInit(Tail(modules))

\* what the initializer of a module fails with: its abort, or the arity of
\* a function that is not an initializer's ("" when it succeeds)
InitError(module) ==
    IF module.name = "b" THEN "ArityMismatch"
    ELSE IF module.init = "abort" THEN "MoveAbort"
    ELSE ""

\* the positions in the bundle of the initializers that fail
FailingInits ==
    {n \in 1..Len(Bundle) : Bundle[n].init # "none" /\ InitError(Bundle[n]) # ""}

BundleVerifies == \A n \in 1..Len(Bundle) : Bundle[n].verifies = "ok"

\* C30: a Publish calls no initializer when a module of the bundle fails
\* verification; otherwise it calls the initializers of the modules that
\* define init once each in the order of the bundle, up to and including
\* the first that fails; when one fails the Publish fails with the error of
\* that one, and when none fails every initializer has been called.
C30_InitializersInOrder ==
    [][PublishStep
       => /\ ~BundleVerifies
             => /\ StepInitCalls = <<>>
                /\ pc' = "failed"
                /\ err'.kind \in {"VMVerificationOrDeserializationError",
                                  "SuiMoveVerificationError"}
          /\ (BundleVerifies /\ FailingInits = {})
                => StepInitCalls = ModulesWithInit(Bundle)
          /\ (BundleVerifies /\ FailingInits # {})
                => /\ StepInitCalls
                         = ModulesWithInit(SubSeq(Bundle, 1, Least(FailingInits)))
                   /\ pc' = "failed"
                   /\ err'.kind = InitError(Bundle[Least(FailingInits)])
                   /\ err'.cmd = idx]_vars

\* a Publish of three modules has failed at the initializer of the second
\* after the initializer of the first ran, and the third was not called
C30_Witness ==
    /\ pc = "failed" /\ cur.kind = "Publish" /\ cur.modules = "witness_first"
    /\ err.kind = "ArityMismatch"
    /\ context.init_calls = <<"m", "b">>

\* the package that the Publish of this step staged
PublishedPackage == context'.new_packages[Len(context'.new_packages)]

\* C31: a Publish that succeeds outside the mode of predefined packages
\* returns exactly one value, an UpgradeCap object whose id is drawn in this
\* step, that holds the storage id of the package this step staged, that can
\* be transferred publicly and that is not marked as used in a non-entry
\* call; in the mode of predefined packages it draws no id and returns no
\* value.
C31_PublishReturnsCap ==
    [][(BodyStep("Publish") /\ pc' = "finish")
       => /\ Len(context'.new_packages) = Len(context.new_packages) + 1
          /\ IF packages_are_predefined(env.mode)
             THEN /\ cur'.results = <<>>
                  /\ context'.ids_created = context.ids_created
                  /\ context'.new_ids = context.new_ids
             ELSE /\ Len(cur'.results) = 1
                  /\ cur'.results[1].kind = "Object"
                  /\ cur'.results[1].ty = "UpgradeCap"
                  /\ cur'.results[1].data = <<PublishedPackage.id>>
                  /\ cur'.results[1].store
                  /\ ~cur'.results[1].used
                  /\ cur'.results[1].id > context.ids_created
                  /\ cur'.results[1].id \notin context.new_ids
                  /\ cur'.results[1].id \in context'.new_ids
                  /\ cur'.results[1].id # PublishedPackage.id
                  /\ PublishedPackage.id > context.ids_created
                  /\ context'.ids_created = context.ids_created + 2]_vars

\* a second Publish of the transaction has returned its capability
C31_Witness ==
    /\ pc = "finish" /\ cur.kind = "Publish" /\ idx = 1
    /\ env.mode = "Normal" /\ Len(cur.results) = 1
    /\ Len(context.new_packages) = 2
    /\ cur.results[1].data = <<context.new_packages[2].id>>

\* ---------------------------------------------------------------------------
\* Resolution of the names of a struct type input

\* a conversion of a type input has returned
ResolveStep == pc = "idle" /\ cur'.kind = "to_type_tag_"

RECURSIVE StructsOf(_)
\* the struct descriptors of a type input, the type parameters included
StructsOf(t) ==
    CASE t.tag = "Vector" -> StructsOf(t.inner)
      [] t.tag = "Struct" ->
            {t} \cup UNION {StructsOf(t.type_params[n]) : n \in 1..Len(t.type_params)}
      [] OTHER -> {}

\* the package of the descriptor is unknown or its type-origin table has no
\* entry for the module and the name
Unresolvable(s) ==
    \A pkg \in get_package(state_view, s.address) :
        <<s.module, s.name>> \notin type_origin_map(pkg)

ValidNames(s) == IsIdentifier(s.module) /\ IsIdentifier(s.name)

StrictResolution == env.protocol_config.better_adapter_type_resolution_errors

ValidatedNames == env.protocol_config.validate_identifier_inputs

TypeNotFoundAt(e, arg_idx) == e.kind = "TypeNotFound" /\ e.arg = arg_idx

\* C32 (as claimed): the resolution of a type input fails with TypeNotFound
\* carrying the index of the type argument exactly when strict resolution
\* checking is enabled and one of its struct descriptors names an unknown
\* package or a (module, name) pair absent from the type-origin table.
C32_TypeNotFoundExactly ==
    [][ResolveStep =>
          (TypeNotFoundAt(err', cur'.next)
             <=> /\ StrictResolution
                 /\ \E s \in StructsOf(cur'.values[1]) : Unresolvable(s))]_vars

\* C32: the resolution fails with TypeNotFound only when strict resolution
\* checking is enabled and a struct descriptor is absent, and then the error
\* carries the index of the type argument; with strict checking disabled it
\* never fails because a type is absent; with strict checking enabled an
\* absent descriptor fails the resolution, with TypeNotFound when all the
\* names of the type input are identifiers or identifiers are not validated,
\* and otherwise with TypeNotFound or the invariant violation of the
\* identifier validation, which runs before the lookup.
C32_TypeNotFoundWhenStrict ==
    [][ResolveStep =>
          LET structs == StructsOf(cur'.values[1])
              absent == \E s \in structs : Unresolvable(s)
              valid == ~ValidatedNames \/ \A s \in structs : ValidNames(s)
          IN /\ err'.kind = "TypeNotFound"
                  => StrictResolution /\ absent /\ err'.arg = cur'.next
             /\ ~StrictResolution => err'.kind # "TypeNotFound"
             /\ StrictResolution /\ absent
                  => /\ pc' = "failed"
                     /\ err'.kind \in {"TypeNotFound", "VMInvariantViolation"}
                     /\ valid => TypeNotFoundAt(err', cur'.next)
             /\ ~valid => pc' = "failed"
             /\ (~absent \/ ~StrictResolution) /\ valid
                  => pc' = "done" /\ Len(cur'.results) = 1
             /\ cur'.values[1].tag = "Struct" /\ cur'.values[1].type_params = <<>>
                  /\ ~valid
                  => err'.kind = "VMInvariantViolation"]_vars

\* a struct of the second type argument was not found in a known package
C32_Witness ==
    /\ pc = "failed"
    /\ cur.kind = "to_type_tag_"
    /\ TypeNotFoundAt(err, 1)
    /\ cur.values[1].tag = "Struct"
    /\ cur.values[1].address = 10
    /\ cur.values[1].name = "Coin"
    /\ StrictResolution

\* ---------------------------------------------------------------------------
\* Round trip through the wire format

\* the bytes of a value of a layout have been validated against the layout
EncodedStep ==
    pc = "idle" /\ cur'.kind = "bcs_argument_validate" /\ cur'.function = ""

WroteBack == pc = "args" /\ cur.next = Len(cur.args) /\ pc' = "finish"

\* the arguments that the call took by mutable reference
MutRefArgs == {cur.args[cur.by_mut_ref[n].i + 1] : n \in 1..Len(cur.by_mut_ref)}

IsPublicNonEntry(f) == Functions[f].visibility = "Public" /\ ~Functions[f].is_entry

AllMarked(results) == \A n \in 1..Len(results) : results[n].used

\* C34 (as claimed): after a Move call each argument passed by mutable
\* reference is restored with the mark true iff the called function is a
\* public function that is not entry, and every returned value is marked.
C34_MarkedIffPublicNonEntry ==
    [][WroteBack =>
          /\ \A a \in MutRefArgs :
                SlotVal(context', a).used = IsPublicNonEntry(cur.function)
          /\ AllMarked(cur'.results)]_vars

\* C34: after a Move call each argument passed by mutable reference is
\* restored with the mark true iff the call was classified NonEntry, whatever
\* mark it carried before; a call is NonEntry when the function is not entry
\* and is public or the mode allows arbitrary function calls; every returned
\* value is marked, whatever the kind of the function.
C34_MarkedIffNonEntryKind ==
    [][WroteBack =>
          /\ \A a \in MutRefArgs :
                SlotVal(context', a).used = (cur.function_kind = "NonEntry")
          /\ cur.function_kind = "NonEntry"
                <=> /\ ~Functions[cur.function].is_entry
                    /\ \/ Functions[cur.function].visibility = "Public"
                       \/ allow_arbitrary_function_calls(env.mode)
          /\ Len(cur'.results) = Len(Functions[cur.function].return_)
          /\ AllMarked(cur'.results)]_vars

\* a public entry function has returned: the object it took by mutable
\* reference, marked by an earlier call, is not marked any more
C34_Witness ==
    /\ pc = "finish"
    /\ cur.kind = "MoveCall"
    /\ cur.function = "touch"
    /\ cur.function_kind = "PublicEntry"
    /\ idx = 1
    /\ Len(context.results[1]) = 0
    /\ cur.args = <<Input(0)>>
    /\ ~SlotVal(context, Input(0)).used
    /\ SlotVal(context, Input(1)).used

\* a friend entry function has returned a value, which is marked, and the
\* object it took by mutable reference is not
C34_EntryReturnMarked ==
    /\ pc = "finish"
    /\ cur.function = "count"
    /\ cur.function_kind = "PrivateEntry"
    /\ Len(cur.results) = 1
    /\ cur.results[1].used
    /\ ~SlotVal(context, cur.args[1]).used

\* ---------------------------------------------------------------------------
\* The transaction context among the arguments and the outputs of a call

\* the VM has run the function and given outputs back
VmReturned ==
    /\ pc = "args" /\ cur.next = Len(cur.args)
    /\ pc' \in {"finish", "failed"}
    /\ cur'.fault # "abort"

ContextKind == tx_ctx_kind(Functions[cur.function].parameters)

\* the outputs that are not the popped one
ExplicitOutputs(outputs) ==
    IF ContextKind = "Mutable" /\ outputs # <<>> THEN Front(outputs) ELSE outputs

\* the last output is a transaction context when the function takes one by
\* mutable reference
ContextReturned(outputs) ==
    ContextKind = "Mutable"
       => outputs # <<>> /\ IsTxContextBytes(outputs[Len(outputs)].bytes)

\* the outputs match the explicit &mut arguments in number and in index
OutputsMatch(outputs) ==
    /\ Len(outputs) = Len(cur.by_mut_ref)
    /\ \A n \in 1..Len(outputs) : outputs[n].i = cur.by_mut_ref[n].i

SlotValues(c) ==
    {c.inputs[n] : n \in 1..Len(c.inputs)}
       \cup UNION {{c.results[n][m] : m \in 1..Len(c.results[n])} : n \in 1..Len(c.results)}

\* C35: when the last declared parameter is a reference to the transaction
\* context, the serialized context is the last argument given to the VM;
\* when the reference is mutable the last output is popped and applied to
\* the transaction context, and is never written to a slot; the other
\* outputs must match the explicit &mut arguments in number and in index,
\* each being restored to the slot of its argument, and a mismatch fails the
\* call with an invariant violation.
C35_ContextOutputApplied ==
    [][VmReturned =>
          LET args == cur'.serialized_arguments
              outputs == cur'.mutable_reference_outputs
              explicit == ExplicitOutputs(outputs)
          IN /\ Len(args) = Len(cur.args) + (IF ContextKind = "None" THEN 0 ELSE 1)
             /\ \A n \in 1..Len(cur.args) : ~IsTxContextBytes(args[n])
             /\ ContextKind # "None"
                  => args[Len(args)] = to_bcs_legacy_context(context.ids_created)
             /\ ~(ContextReturned(outputs) /\ OutputsMatch(explicit))
                  => pc' = "failed" /\ err'.kind = "InvariantViolation"
             /\ ContextReturned(outputs) /\ OutputsMatch(explicit)
                  => /\ pc' = "finish"
                     /\ ContextKind = "Mutable"
                          => context'.ids_created = outputs[Len(outputs)].bytes.data[1]
                     /\ \A n \in 1..Len(explicit) :
                           /\ SlotVal(context', cur.args[explicit[n].i + 1]).id
                                 = explicit[n].bytes.id
                           /\ SlotVal(context', cur.args[explicit[n].i + 1]).data
                                 = explicit[n].bytes.data
                           /\ ~arg_is_borrowed(context', cur.args[explicit[n].i + 1])
             /\ \A v \in SlotValues(context') \cup {cur'.results[n] : n \in 1..Len(cur'.results)} :
                   v.id # -1]_vars

\* a function that takes an object by reference, one by mutable reference
\* and the context by mutable reference has returned: the context counts the
\* id that the VM created and the id of the returned object
C35_Witness ==
    /\ pc = "finish"
    /\ cur.function = "edit_ctx"
    /\ Len(cur.serialized_arguments) = 3
    /\ Len(cur.mutable_reference_outputs) = 2
    /\ cur.mutable_reference_outputs[1].i = 1
    /\ cur.mutable_reference_outputs[2].i = 2
    /\ context.ids_created = 4
    /\ Len(cur.results) = 1

\* the VM gave the context first: the call has failed
C35_ContextFirstFails ==
    /\ pc = "failed"
    /\ cur.function = "touch_ctx"
    /\ Len(cur.mutable_reference_outputs) = 2
    /\ IsTxContextBytes(cur.mutable_reference_outputs[1].bytes)
    /\ err.kind = "InvariantViolation"

\* ---------------------------------------------------------------------------
\* Calls refused before their arguments

\* the errors of check_visibility_and_signature and of the arity check
RejectionKinds ==
    {"FunctionNotFound", "NonEntryFunctionInvoked", "InvalidPublicFunctionReturnType",
     "ArityMismatch"}

\* why a call of the function with these arguments is refused, "" when it
\* is not
Rejection(function, args) ==
    CASE function \notin FunctionNames -> "not found"
      [] init_is_banned(env, function, FALSE) -> "init"
      [] function_kind(env.mode, Functions[function], FALSE) = "" -> "visibility"
      [] FirstReferenceReturn(env.mode, Functions[function].return_) # 0 -> "reference"
      [] check_private_generics(ModuleOf(function), IdentOf(function)) # NoErr ->
            "privileged"
      [] ~ArityMatches(function_kind(env.mode, Functions[function], FALSE),
                       Functions[function].parameters, args) -> "arity"
      [] OTHER -> ""

\* C36: a Move call refused because the function is not found, for its
\* visibility, for the init ban, for a reference return type, for a
\* privileged module or for its arity fails in the step that starts the
\* command, before any argument is resolved, and leaves the value and the
\* borrow state of every slot as they were; no later step of a call fails
\* with one of these errors.
C36_RejectedCallLeavesSlots ==
    /\ [][CallStep =>
             /\ Rejection(cur'.function, cur'.args) # ""
                  <=> pc' = "failed"
             /\ pc' = "failed"
                  => /\ err'.kind \in RejectionKinds
                     /\ cur'.next = 0 /\ cur'.values = <<>>
                     /\ cur'.by_mut_ref = <<>> /\ cur'.by_ref = <<>>
                     /\ context'.inputs = context.inputs
                     /\ context'.results = context.results
                     /\ context'.borrowed = context.borrowed
                     /\ context' = context
             /\ pc' # "failed" => pc' = "args" /\ context' = context]_vars
    /\ [][pc = "args" => err'.kind \notin RejectionKinds]_vars

\* the second command is a call with one argument too many: it is refused
\* and the objects that the first command took are still taken
C36_Witness ==
    /\ pc = "failed"
    /\ idx = 1
    /\ cur.kind = "MoveCall"
    /\ cur.function = "touch"
    /\ Len(cur.args) = 2
    /\ err.kind = "ArityMismatch"
    /\ context.inputs[1].kind = "None"
    /\ context.inputs[2].kind = "None"
    /\ context.borrowed = <<>>

\* ---------------------------------------------------------------------------
\* The linkage context

\* the body of a command that uses the linkage view has returned
LinkageStep ==
    pc = "idle" /\ pc' \in {"finish", "failed"}
       /\ cur'.kind \in {"MoveCall", "Publish", "Upgrade"}

Ops(c) == [n \in 1..Len(c.linkage_ops) |-> c.linkage_ops[n].op]

OpsAt(c, op) == {n \in 1..Len(c.linkage_ops) : c.linkage_ops[n].op = op}

\* the linkage in force before the n-th operation
LinkageBefore(c, n) == IF n = 1 THEN <<>> ELSE c.linkage_ops[n - 1].linkage

\* after the steal at n: the write-back, succeeded or failed, comes before
\* the next steal or end of call, and after it the restore of the linkage
\* that was in force at n
RestoredAfter(c, n) ==
    \E w \in (n + 1)..Len(c.linkage_ops), r \in (n + 1)..Len(c.linkage_ops) :
        /\ w < r
        /\ c.linkage_ops[w].op \in {"write_back", "write_back_failed"}
        /\ c.linkage_ops[r].op = "restore"
        /\ c.linkage_ops[r].linkage = LinkageBefore(c, n)
        /\ LinkageBefore(c, n) # <<>>
        /\ \A k \in (n + 1)..(r - 1) :
              c.linkage_ops[k].op \notin {"steal", "call", "call_failed"}
        /\ \A k \in (n + 1)..(w - 1) : c.linkage_ops[k].op \in {"set", "reset"}
        /\ \A k \in n..(r - 1) : k >= w \/ c.linkage_ops[k].op # "set"
                                    \/ c.linkage_ops[k + 1].op = "reset"

\* C37: the linkage is unset at every command boundary; when a command set
\* it, the last thing its handler does to it is a reset, after the call of
\* a MoveCall, after the verification and the initializers of a Publish and
\* after the verification of an Upgrade, whether they succeeded or failed;
\* the linkage in force when a call returns is stolen before the write-back
\* and restored after it, also when the write-back fails.
C37_LinkageUnsetBetweenCommands ==
    /\ [](pc \in {"idle", "finish", "failed", "done"} => context.linkage = <<>>)
    /\ [][LinkageStep =>
             LET c == context'
                 n == Len(c.linkage_ops)
             IN /\ c.linkage = <<>>
                /\ OpsAt(c, "restore_failed") = {}
                /\ OpsAt(c, "set") # {}
                     => /\ c.linkage_ops[n].op = "reset"
                        /\ c.linkage_ops[1].op = "set"
                        /\ \A k \in 1..(n - 1) :
                              c.linkage_ops[k].op = "reset"
                                 => k > 1 /\ c.linkage_ops[k - 1].op = "set"
                                          /\ \E s \in OpsAt(c, "steal") : s < k
                /\ \A k \in OpsAt(c, "steal") : RestoredAfter(c, k)
                /\ Len(SelectSeq(Ops(c), LAMBDA op : op = "steal"))
                      = Len(SelectSeq(Ops(c), LAMBDA op : op = "restore"))
                /\ Len(SelectSeq(Ops(c), LAMBDA op : op = "steal"))
                      = Len(SelectSeq(Ops(c), LAMBDA op :
                                         op \in {"write_back", "write_back_failed"}))
                /\ cur'.kind = "Upgrade" /\ n > 0
                     => Ops(c) \in {<<"set", "verify", "reset">>,
                                    <<"set", "verify_failed", "reset">>}
                /\ OpsAt(c, "write_back_failed") \cup OpsAt(c, "call_failed")
                      \cup OpsAt(c, "verify_failed") # {}
                     => pc' = "failed"]_vars

\* a Publish has failed in the write-back of its second initializer, which
\* had made a value: the linkage of the package was restored, then reset
C37_Witness ==
    /\ pc = "failed"
    /\ cur.kind = "Publish"
    /\ context.linkage = <<>>
    /\ Ops(context) =
          <<"set", "verify", "call", "steal", "write_back", "restore",
            "call", "steal", "set", "reset", "write_back_failed", "restore", "reset">>
    /\ context.linkage_ops[12].linkage = context.linkage_ops[1].linkage
    /\ context.linkage_ops[12].linkage # <<>>

\* ---------------------------------------------------------------------------
\* The results of the execution and the state view

AllSucceeded == timings = [n \in 1..idx |-> "Success"]

\* C38: the results of the execution are handed to the state view at most
\* once, in the step after the last command, and only if every command
\* succeeded and context.finish succeeded; when a command fails, neither the
\* results nor the wrapped object containers are recorded.
C38_ResultsRecordedOnce ==
    /\ [](state_view.execution_results \in {0, 1})
    /\ [](state_view.wrapped_object_containers \in {0, 1})
    /\ [](state_view.execution_results = 1
            => pc = "done" /\ err = NoErr /\ AllSucceeded)
    /\ [](pc = "done"
            => /\ AllSucceeded
               /\ state_view.execution_results = 1 <=> err = NoErr)
    /\ [](pc # "done"
            => /\ state_view.execution_results = 0
               /\ state_view.wrapped_object_containers = 0)
    /\ [][state_view'.execution_results # state_view.execution_results
             => pc = "idle" /\ pc' = "done"]_vars
    /\ [][pc \notin {"failed", "done"}]_vars

\* the second command failed after the first had succeeded: nothing but the
\* loaded runtime objects was handed to the state view
C38_Witness ==
    /\ pc = "failed"
    /\ idx = 1
    /\ timings = <<"Success", "Abort">>
    /\ state_view.execution_results = 0
    /\ state_view.wrapped_object_containers = 0
    /\ state_view.loaded_runtime_objects = 1
    /\ context.transfers # {}

\* all the commands and context.finish succeeded: the results are recorded
C38_ResultsRecorded ==
    /\ pc = "done" /\ err = NoErr /\ idx = 2
    /\ state_view.execution_results = 1

(***************************************************************************)
(* TransferObjects: the arguments are taken before anything is transferred *)
(***************************************************************************)
\* a step that runs the body of a TransferObjects
TransferStep == BodyStep("TransferObjects")

\* the value the n-th object argument held before the step
Sent(n) == SlotVal(context, cur'.args[n])

\* the n-th object argument is an object still in its slot when its turn
\* comes; the address argument is the bytes of an address
ObjectResolves(n) ==
    /\ Sent(n).kind = "Object"
    /\ \A m \in 1..(n - 1) : cur'.args[m] # cur'.args[n]

AddressResolves ==
    /\ SlotVal(context, cur'.a0).kind = "Any"
    /\ SlotVal(context, cur'.a0).ty = "bytes32"

UnresolvedObjects == {n \in 1..Len(cur'.args) : ~ObjectResolves(n)}

AllResolve == UnresolvedObjects = {} /\ AddressResolves

\* the object arguments that are not eligible for public transfer
Ineligible == {n \in 1..Len(cur'.args) : ~Sent(n).store}

\* the transfers of the object arguments of the set S to the address
TransfersOf(S) == {<<Sent(n).id, SlotVal(context, cur'.a0).data[1]>> : n \in S}

NewTransfers == context'.transfers \ context.transfers

\* C39: TransferObjects takes by value every object argument, in order, and
\* then the address argument, before it transfers anything: when an
\* argument does not resolve the command fails with the index of that
\* argument, the object arguments before it are consumed and no object is
\* transferred. Then the objects are transferred in argument order, each
\* only if it is eligible for public transfer: the command fails with
\* InvalidTransferObject at the first ineligible object, those before it
\* being transferred, and otherwise transfers every object to the address
\* and returns no results.
C39_TransferAfterArguments ==
    [][TransferStep =>
          /\ \A n \in 1..Len(cur'.args) :
                (\A m \in 1..n : ObjectResolves(m))
                   => SlotVal(context', cur'.args[n]).kind = "None"
          /\ UnresolvedObjects # {} =>
                /\ pc' = "failed"
                /\ err'.kind \in {"InvalidValueUsage", "TypeMismatch"}
                /\ err'.arg = Least(UnresolvedObjects) - 1
                /\ context'.transfers = context.transfers
          /\ (UnresolvedObjects = {} /\ ~AddressResolves) =>
                /\ pc' = "failed"
                /\ err'.kind \in {"InvalidValueUsage", "TypeMismatch", "InvalidBCSBytes"}
                /\ err'.arg = Len(cur'.args)
                /\ context'.transfers = context.transfers
          /\ (AllResolve /\ Ineligible # {}) =>
                /\ pc' = "failed"
                /\ err'.kind = "InvalidTransferObject"
                /\ NewTransfers = TransfersOf(1..(Least(Ineligible) - 1))
          /\ (AllResolve /\ Ineligible = {}) =>
                /\ pc' = "finish"
                /\ cur'.results = <<>>
                /\ NewTransfers = TransfersOf(1..Len(cur'.args))
                /\ Cardinality(NewTransfers) = Len(cur'.args)]_vars

\* a TransferObjects of two objects returned: both are transferred
C39_Witness ==
    /\ pc = "finish" /\ cur.kind = "TransferObjects"
    /\ Len(cur.args) = 2 /\ cur.results = <<>>
    /\ Cardinality(context.transfers) = 2
    /\ \A n \in 1..2 : SlotVal(context, cur.args[n]).kind = "None"

\* a TransferObjects failed at an ineligible object after it transferred the
\* object before it
C39_PartialTransfer ==
    /\ pc = "failed" /\ cur.kind = "TransferObjects"
    /\ err.kind = "InvalidTransferObject" /\ err.cmd = 0
    /\ context.transfers # {}

\* a TransferObjects failed at its address after it took its objects
C39_AddressFails ==
    /\ pc = "failed" /\ cur.kind = "TransferObjects"
    /\ err.arg = Len(cur.args) /\ Len(cur.args) > 0
    /\ context.transfers = {}
    /\ \A n \in 1..Len(cur.args) : SlotVal(context, cur.args[n]).kind = "None"

(***************************************************************************)
(* MakeMoveVec: one vector of the arguments                                *)
(***************************************************************************)
\* the value the n-th element held before the step
Element(n) == SlotVal(context, cur'.args[n])

\* the result of the step is one raw vector value of the element type that
\* counts as many elements as the command has arguments
OneVector ==
    /\ Len(cur'.results) = 1
    /\ cur'.results[1].kind = "Loaded"
    /\ cur'.results[1].ty = VectorOf(ElementType)
    /\ cur'.results[1].data[1] = Len(cur'.args)

\* every element was taken by value: it left its slot unless it is copyable
ElementsTaken ==
    \A n \in 1..Len(cur'.args) :
        /\ Element(n).kind # "None"
        /\ ~is_copyable(Element(n)) => SlotVal(context', cur'.args[n]).kind = "None"

\* the result is marked exactly when an element was
MarkOfElements ==
    cur'.results[1].used
        <=> \E n \in 1..Len(cur'.args) : was_used_in_non_entry_move_call(Element(n))

\* the first element is an object and the elements of the set S are objects
\* or values of earlier commands of the type of the first
FirstFixesType(S) ==
    /\ Element(1).kind = "Object"
    /\ \A n \in S : IsTyped(Element(n)) /\ Element(n).ty = Element(1).ty

\* the elements that are pure bytes
PureBytes == {n \in 1..Len(cur'.args) : Element(n).kind = "Any"}

\* C40 (as claimed): a MakeMoveVec that returns took every argument by
\* value and returns exactly one raw vector value that counts as many
\* elements as it has arguments, marked exactly when one of its elements
\* was; without an element type the first argument is an object and every
\* other argument has exactly its type.
C40_VectorOfMatchingElements ==
    [][(BodyStep("MakeMoveVec") /\ pc' = "finish")
         => /\ OneVector
            /\ ElementsTaken
            /\ MarkOfElements
            /\ cur'.function = "" => FirstFixesType(1..Len(cur'.args))]_vars

\* C40 (amended): a MakeMoveVec that returns took every argument by value
\* and returns exactly one raw vector value that counts as many elements as
\* it has arguments, marked exactly when one of its elements was (the empty
\* vector never is); without an element type the first argument is an
\* object, every other object or value of an earlier command has exactly
\* its type, and pure bytes are elements only in a mode that allows
\* arbitrary values, which takes them without a type.
C40_VectorOfElements ==
    [][(BodyStep("MakeMoveVec") /\ pc' = "finish")
         => /\ OneVector
            /\ ElementsTaken
            /\ MarkOfElements
            /\ cur'.args = <<>> => ~cur'.results[1].used
            /\ cur'.function = ""
                  => /\ FirstFixesType((1..Len(cur'.args)) \ PureBytes)
                     /\ PureBytes # {} => allow_arbitrary_values(env.mode)]_vars

\* a MakeMoveVec without an element type returned a marked vector of two
\* objects of which the second only was marked
C40_Witness ==
    /\ pc = "finish" /\ cur.kind = "MakeMoveVec" /\ cur.function = ""
    /\ Len(cur.args) = 2
    /\ cur.args[1] = Input(0) /\ cur.args[2].k = "Result"
    /\ cur.results[1].ty = VectorOf("Obj") /\ cur.results[1].data[1] = 2
    /\ cur.results[1].used

\* a MakeMoveVec without an element type returned a vector of an object and
\* pure bytes
C40_PureElement ==
    /\ pc = "finish" /\ cur.kind = "MakeMoveVec" /\ cur.function = ""
    /\ Len(cur.args) = 2
    /\ context.inputs[2].kind = "Any" /\ cur.args[2] = Input(1)
    /\ cur.results[1].ty = VectorOf("Obj")

====
